---- MODULE Spec2Model ----
(***************************************************************************)
(* smartbcr2k: a control surface (input Device) routed through an          *)
(* Interface to an output peer (OutputPort).                               *)
(*                                                                         *)
(* Two state machines share this module:                                   *)
(*   ShellSpec  one util.threadshell.Shell: threads put calls on its       *)
(*              queue, the worker thread drains them and runs the tick.    *)
(*   Spec       the Interface with its input Device and its OutputPort:    *)
(*              every handler is one action, every write to the input      *)
(*              Device is logged with the thread that executes it.         *)
(***************************************************************************)
EXTENDS Integers, Sequences, FiniteSets, TLC

(***************************************************************************)
(* Bounds of the model                                                     *)
(***************************************************************************)
\* calls submitted to the Shell in one run (more than the drain cap)
MaxCalls == 51
\* events pending on the Interface's event queue beyond which the model
\* lets the devices emit no more
MaxPending == 2

(***************************************************************************)
(* Program constants                                                       *)
(***************************************************************************)
\* threadshell.py:93  max_calls = 50
DrainCap == 50
\* interface.py:505  max_messages = 50
MaxMessages == 50
\* interface.py:61  Queue(): maxsize 0, the queue never raises Full
DeviceQMaxsize == 0
\* util/__init__.py:4  FULL = 127
FULL == 127
\* rtmidi.midiconstants.CONTROL_CHANGE = 0xB0 (ports.py:9)
CONTROL_CHANGE == 176
\* bcr2k.py:15  channel_offset=7
ChannelOffset == 7
\* bcr2k.py:51  macros: 32 Dials
NMacros == 32
\* bcr2k.py:52  macro_buttons: 32 Buttons
NMacroButtons == 32
\* bcr2k.py:53  menu_buttons: 16 Buttons
NMenuButtons == 16
\* bcr2k.py:57  dials: 24 Dials per page
NDials == 24
\* a value no method returns: Python's None
None == -1

\* positions a dial is turned to, numbers and values the output reports
DialValues == {64}
OutputNumbers == {1}
OutputValues == {100}

VARIABLES
    \* ---- util.threadshell.Shell ----
    q,           \* Shell._q: the call queue, a sequence of result-slot ids
    running,     \* Shell._running
    pc,          \* position of the worker thread in _main_loop
    max_calls,   \* the local max_calls of _main_loop
    results,     \* result-slot id -> "empty" | "value": the ShellResult queues
    submitted,   \* history: the ids in the order they were put on the queue
    executed,    \* history: the ids in the order the worker called them
    lastStep,    \* history: what the last step of the Shell was
    iterCalls,   \* history: calls executed in the current loop iteration
    iterTicks,   \* history: ticks invoked in the current loop iteration
    tickRaised,  \* history: the tick function has raised at least once
    \* ---- devices.ports.Device (the input device) ----
    controls,    \* Device.controls: ID -> Control
    page,        \* Device._page
    \* ---- smci.interface.Interface ----
    view,        \* Interface.view: the name of the active View
    views,       \* Interface.views: the catalog, a sequence of View names
    vmap,        \* View.map of every View object: name -> ID -> targets
    vconf,       \* View.configuration of every View object
    targets,     \* Interface.targets: the names registered
    tobj,        \* the Target objects: name -> attributes
    maker,       \* Interface.parameter_maker and Interface.view_maker
    device_q,    \* Interface.device_q: events of both devices
    modifiers,   \* Interface.modifiers: the Modifier objects
    snapshots,   \* Interface.snapshots: slot -> saved state
    recent_changes,  \* Interface.recent_changes["controls"]: ID -> value
    last_modified_targets,  \* Interface.last_modified_targets
    blink_state, \* Device.blink_state of the input device
    last_sent_values,  \* OutputPort.last_sent_values: ID -> value
    poll,        \* the calls of get_recent_changes and what the last one
                 \* returned, the dict a thread holds between reading
                 \* self.recent_changes and storing into it, and (history)
                 \* the values recorded since the last call
    op           \* history: what the last handler did

shellVars == <<q, running, pc, max_calls, results, submitted, executed,
               lastStep, iterCalls, iterTicks, tickRaised>>

routerVars == <<controls, page, view, views, vmap, vconf, targets, tobj,
                maker, device_q, modifiers, snapshots, recent_changes,
                last_modified_targets, blink_state, last_sent_values, poll, op>>

vars == <<shellVars, routerVars>>

(***************************************************************************)
(* queue.Queue as used by the Shell: put_nowait appends, get_nowait takes  *)
(* the oldest item or raises Empty.                                        *)
(***************************************************************************)
put_nowait(queue, item) == Append(queue, item)

\* LIFO: the index of the newest item
get_nowait_newest(queue) == Len(queue)

\* the index of the item that get_nowait takes: the oldest
get_nowait(queue) == 1

Without(queue, i) == [k \in 1..(Len(queue) - 1) |->
                         IF k < i THEN queue[k] ELSE queue[k + 1]]

Outcomes == {"returns", "raises"}

(***************************************************************************)
(* ShellCall.__call__: a fresh ShellResult, the call put on the queue, the *)
(* result handle returned at once.  Any thread may do this at any time.    *)
(***************************************************************************)
ShellCall ==
    /\ Len(submitted) < MaxCalls
    /\ LET id == Len(submitted) + 1 IN
         /\ q' = put_nowait(q, id)
         /\ results' = [k \in DOMAIN results \cup {id} |->
                           IF k = id THEN "empty" ELSE results[k]]
         /\ submitted' = Append(submitted, id)
    /\ lastStep' = "put"
    /\ UNCHANGED <<running, pc, max_calls, executed, iterCalls, iterTicks,
                   tickRaised>>
    /\ UNCHANGED routerVars

(***************************************************************************)
(* Shell._main_loop, one step per statement that other threads can see.    *)
(***************************************************************************)
\* while self._running: ... max_calls = 50
LoopHead ==
    /\ pc = "loop"
    /\ IF running
         THEN pc' = "drain" /\ max_calls' = DrainCap
         ELSE pc' = "stopped" /\ UNCHANGED max_calls
    /\ iterCalls' = 0
    /\ iterTicks' = 0
    /\ lastStep' = "loop"
    /\ UNCHANGED <<q, running, results, submitted, executed, tickRaised>>
    /\ UNCHANGED routerVars

\* where the worker is after call(*args, **kwargs) ended with `outcome`:
\* result.put(...) runs only if the call returned; an exception is no
\* queue.Empty, so no handler of _main_loop catches it and the thread ends
after_call(outcome) == IF outcome = "returns" THEN "drain" ELSE "dead"

\* the content of the result slot after the call ended with `outcome`
publish(outcome) == IF outcome = "returns" THEN "value" ELSE "empty"

\* while max_calls > 0: call, result, ... = self._q.get_nowait();
\*                      max_calls -= 1; result.put(call(...))
DrainCall ==
    /\ pc = "drain"
    /\ max_calls > 0
    /\ q # <<>>
    /\ \E outcome \in Outcomes :
         LET i  == get_nowait(q)
             id == q[i] IN
           /\ q' = Without(q, i)
           /\ max_calls' = max_calls - 1
           /\ executed' = Append(executed, id)
           /\ results' = [results EXCEPT ![id] = publish(outcome)]
           /\ pc' = after_call(outcome)
           /\ lastStep' = IF outcome = "returns" THEN "call" ELSE "call_raised"
    /\ iterCalls' = iterCalls + 1
    /\ UNCHANGED <<running, submitted, iterTicks, tickRaised>>
    /\ UNCHANGED routerVars

\* get_nowait raises Empty (except Empty: pass), or max_calls reached 0
DrainEnd ==
    /\ pc = "drain"
    /\ (max_calls = 0 \/ q = <<>>)
    /\ pc' = "tick"
    /\ lastStep' = IF q = <<>> /\ max_calls > 0 THEN "empty" ELSE "cap"
    /\ UNCHANGED <<q, running, max_calls, results, submitted, executed,
                   iterCalls, iterTicks, tickRaised>>
    /\ UNCHANGED routerVars

\* an exception of the tick function ends the thread
tick_uncaught(outcome) == IF outcome = "returns" THEN "yield" ELSE "dead"

\* try: self._u()  except Exception as e: eprint(self, e)
after_tick(outcome) == "yield"

Tick ==
    /\ pc = "tick"
    /\ \E outcome \in Outcomes :
         /\ pc' = after_tick(outcome)
         /\ lastStep' = IF outcome = "returns" THEN "tick" ELSE "tick_raised"
         /\ tickRaised' = (tickRaised \/ outcome = "raises")
    /\ iterTicks' = iterTicks + 1
    /\ UNCHANGED <<q, running, max_calls, results, submitted, executed,
                   iterCalls>>
    /\ UNCHANGED routerVars

\* yield_thread(): sleep(TICK_RATE / 1000.), then back to the loop head
YieldThread ==
    /\ pc = "yield"
    /\ pc' = "loop"
    /\ lastStep' = "yield"
    /\ UNCHANGED <<q, running, max_calls, results, submitted, executed,
                   iterCalls, iterTicks, tickRaised>>
    /\ UNCHANGED routerVars

Worker == LoopHead \/ DrainCall \/ DrainEnd \/ Tick \/ YieldThread


(***************************************************************************)
(* devices.ports: the flat address space of control IDs                    *)
(***************************************************************************)
ccc2ID(channel, cc, pg) == ((channel - 1) * 128 + cc) + (pg * 128 * 16)

\* a decoding that forgets the pages: ID // 128 + 1, ID % 128
ID2ccc_unpaged(ID, device_number) == <<(ID \div 128) + 1, ID % 128>>

\* ID2ccc(ID, device_number): ID -= device_number * 128 * 16;
\* ID %= 128 * 16; return (ID // 128) + 1, ID % 128
ID2ccc_device(ID, device_number) ==
    <<(((ID - device_number * 128 * 16) % (128 * 16)) \div 128) + 1,
      ((ID - device_number * 128 * 16) % (128 * 16)) % 128>>

\* ID2ccc(ID), device_number=0
ID2ccc(ID) == ID2ccc_device(ID, 0)

(***************************************************************************)
(* devices.bcr2k.BCR2k.setup_controls.  The model keeps one control of     *)
(* each bank the claims are about, with the ID it has on the device: the   *)
(* banks are laid out one after the other from ccc2ID(channel_offset, 0)+1.*)
(***************************************************************************)
\* the first of the 16 menu buttons (toggle=True), after 32 macro dials
\* and 32 macro buttons
MenuButton == (ccc2ID(ChannelOffset, 0, 0) + 1) + NMacros + NMacroButtons
\* the first of the 24 main dials of page 0
MainDial == MenuButton + NMenuButtons
\* its twin on page 1: ID2 = ID + 16 * 128
MainDial2 == MainDial + 16 * 128
\* the first of the 4 command buttons (toggle=False)
CommandButton == MainDial + NDials

ControlIDs == {MenuButton, MainDial, MainDial2, CommandButton}
\* self.dials: the main dials of both pages, the only paged controls
Dials == {MainDial, MainDial2}
\* dict order of Device.controls and of View.map in the model: ascending
IDOrder == <<MenuButton, MainDial, CommandButton, MainDial2>>

\* Control.__init__ / Button.__init__
NewControl(kind, toggle) ==
    [kind |-> kind, value |-> 0, state |-> FALSE, ignore |-> 0,
     toggle |-> toggle, minval |-> 0, maxval |-> FULL, blink |-> FALSE]

setup_controls ==
    [ID \in ControlIDs |->
        IF ID \in Dials THEN NewControl("Dial", FALSE)
        ELSE IF ID = MenuButton THEN NewControl("Button", TRUE)
        ELSE NewControl("Button", FALSE)]

\* Control.default_conf; buttonconf is the same dict object, so the update
\* with "toggle": True is in the defaults of every control class
default_conf == [minval |-> 0, maxval |-> FULL, blink |-> FALSE, toggle |-> TRUE]

\* Control.configure: setattr for every item of the conf dict
configure(c, conf) ==
    [c EXCEPT !.minval = conf.minval, !.maxval = conf.maxval,
              !.blink = conf.blink, !.toggle = conf.toggle]

\* util.clip: sorted((minval, value, maxval))[1]
clip(minval, maxval, value) ==
    IF minval <= maxval
      THEN (IF value < minval THEN minval ELSE IF value > maxval THEN maxval ELSE value)
      ELSE (IF value < maxval THEN maxval ELSE IF value > minval THEN minval ELSE value)

\* util.unify on the integers the devices deliver: int(value)
unify(value) == value

(***************************************************************************)
(* The history of one handler: what it called and wrote, and on which      *)
(* thread.  Threads: "input_worker" and "output_worker" are the workers of *)
(* the two device Shells, "iface" is Interface.update_thread, "main" is    *)
(* the thread of the command line or the GUI.                              *)
(***************************************************************************)
NewOp(name, thread, arg) ==
    [name |-> name, thread |-> thread, arg |-> arg,
     output_cc |-> <<>>,   \* calls of output.cc put on the output Shell
     sent |-> <<>>,        \* messages sent to the input hardware
     set_calls |-> <<>>,   \* calls of Device.set_control
     gets |-> {},          \* blocking get()s: [thread, shell]
     writes |-> {},        \* writes to input Device state: [field, thread]
     triggered |-> <<>>,   \* targets triggered
     consumed |-> <<>>,    \* events taken from device_q
     modified_targets |-> {},  \* the local set of from_input
     exc |-> "none"]       \* the exception that ended the handler

WorkerOf(shell) == IF shell = "input" THEN "input_worker" ELSE "output_worker"

Raise(s, e) == [s EXCEPT !.op.exc = e]
Failed(s) == s.op.exc # "none"

LogWrites(s, thr, fields) ==
    [s EXCEPT !.op.writes = @ \cup {[field |-> f, thread |-> thr] : f \in fields}]

(***************************************************************************)
(* devices.ports.Device and devices.bcr2k.BCR2k                            *)
(***************************************************************************)
\* a device on which every control is on the page shown
control_always_active(s, ID) == TRUE

\* BCR2k.control_on_active_page over Device.control_on_active_page
control_on_active_page(s, ID) ==
    IF ID \in Dials
      THEN ID \in (s.page * 16 * 128)..((s.page + 1) * 16 * 128 - 1)
      ELSE TRUE

\* Device.cc: the message goes out if the control is on the active page
cc(s, ID, value, ignore_page) ==
    IF ignore_page \/ control_on_active_page(s, ID)
      THEN [s EXCEPT !.op.sent = Append(@, <<ID, value>>)]
      ELSE s

send_to_device(s, ID, value) == cc(s, ID, value, FALSE)

\* a Button that follows every value it is given, whatever its mode
following_set_value(s, thr, ID, value) ==
    [s |-> LogWrites([s EXCEPT !.controls[ID].value =
                          clip(s.controls[ID].minval, s.controls[ID].maxval, value),
                               !.controls[ID].state =
                          (value >= s.controls[ID].maxval)],
                     thr, {"value", "state"}),
     ret |-> clip(s.controls[ID].minval, s.controls[ID].maxval, value)]

\* Button.set_value and Control.set_value (Dial), executed on thread thr;
\* the result is the state and the value returned
plain_set_value(s, thr, ID, value) ==
    LET c == s.controls[ID] IN
    IF c.kind = "Dial"
      THEN [s |-> LogWrites([s EXCEPT !.controls[ID].value =
                                 clip(c.minval, c.maxval, value)], thr, {"value"}),
            ret |-> clip(c.minval, c.maxval, value)]
    ELSE IF c.ignore > 0
      THEN [s |-> send_to_device(
                    LogWrites([s EXCEPT !.controls[ID].ignore = c.ignore - 1],
                              thr, {"ignore"}),
                    ID, c.value),
            ret |-> None]
    ELSE IF c.toggle
      THEN IF value = c.maxval /\ ~c.state
             THEN [s |-> LogWrites([s EXCEPT !.controls[ID].value = c.maxval,
                                             !.controls[ID].state = TRUE,
                                             !.controls[ID].ignore = 2],
                                   thr, {"value", "state", "ignore"}),
                   ret |-> c.maxval]
           ELSE IF value = c.minval /\ c.state
             THEN [s |-> LogWrites([s EXCEPT !.controls[ID].value = c.minval,
                                             !.controls[ID].state = FALSE],
                                   thr, {"value", "state"}),
                   ret |-> c.minval]
           ELSE [s |-> s, ret |-> c.value]
    ELSE [s |-> LogWrites([s EXCEPT !.controls[ID].value = value,
                                    !.controls[ID].state = (value = c.maxval)],
                          thr, {"value", "state"}),
          ret |-> value]

\* set_value(value, force=True): the control takes the value and the state
\* that goes with it, whatever its toggle cycle is in
forced_set_value(s, thr, ID, value) ==
    LET c == s.controls[ID]
        v == clip(c.minval, c.maxval, value) IN
    IF c.kind = "Dial"
      THEN [s |-> LogWrites([s EXCEPT !.controls[ID].value = v], thr, {"value"}),
            ret |-> v]
      ELSE [s |-> LogWrites([s EXCEPT !.controls[ID].value = v,
                                      !.controls[ID].state = (v = c.maxval),
                                      !.controls[ID].ignore = 0],
                            thr, {"value", "state", "ignore"}),
            ret |-> v]

set_value(s, thr, ID, value, force) ==
    IF force THEN forced_set_value(s, thr, ID, value)
             ELSE plain_set_value(s, thr, ID, value)

\* queue.Queue.put_nowait raises Full on a queue with maxsize > 0 that
\* holds maxsize items
Full(queue, maxsize) == maxsize > 0 /\ Len(queue) >= maxsize

RECURSIVE from_input(_, _, _, _, _)

\* a listener called back at once, on the thread of the device
control_changed_callback(s, thr, ID, value) == from_input(s, thr, "input", ID, value)

\* Device.control_changed: listener.put_nowait((DeviceEvent.CC, self, ID,
\* value)); except Full: print
control_changed(s, thr, ID, value) ==
    IF Full(s.device_q, DeviceQMaxsize)
      THEN s
      ELSE [s EXCEPT !.device_q = put_nowait(@,
               [ev |-> "DeviceEvent.CC", sender |-> "input", data |-> <<ID, value>>])]

\* Device.set_control after control.set_value returned r.ret: the accepted
\* value goes to the hardware if the change did not come from it or the
\* value differs from the one requested
set_control_send(r, ID, value, from_inp) ==
    IF ~from_inp \/ r.ret # value THEN cc(r.s, ID, r.ret, FALSE) ELSE r.s

\* a set_control that goes on after the control returned None
set_control_report_none(r, thr, ID, value, from_inp, inform_listeners) ==
    IF inform_listeners /\ (from_inp \/ r.ret # value)
      THEN [s |-> control_changed(set_control_send(r, ID, value, from_inp),
                                  thr, ID, r.ret),
            ret |-> r.ret]
    ELSE [s |-> set_control_send(r, ID, value, from_inp), ret |-> r.ret]

\* ... and to the listeners if it came from the hardware or differs; a
\* value of None ends the method before either
set_control_report(r, thr, ID, value, from_inp, inform_listeners) ==
    IF r.ret = None THEN r
    ELSE IF inform_listeners /\ (from_inp \/ r.ret # value)
      THEN [s |-> control_changed(set_control_send(r, ID, value, from_inp),
                                  thr, ID, r.ret),
            ret |-> r.ret]
    ELSE [s |-> set_control_send(r, ID, value, from_inp), ret |-> r.ret]

\* a set_control that reports a value for an ID the device does not own
set_control_unchecked(s, thr, ID, value, from_inp, inform_listeners, force) ==
    IF ID \notin DOMAIN s.controls
      THEN [s |-> control_changed(cc(s, ID, value, TRUE), thr, ID, value),
            ret |-> value]
      ELSE set_control_report(set_value(s, thr, ID, value, force),
                              thr, ID, value, from_inp, inform_listeners)

\* Device.set_control, executed on thread thr
set_control(s, thr, ID, value, from_inp, inform_listeners, force) ==
    IF ID \notin DOMAIN s.controls
      THEN [s |-> [s EXCEPT !.op.set_calls =
                      Append(@, [ID |-> ID, value |-> value, force |-> force])],
            ret |-> None]
      ELSE set_control_report(
              set_value([s EXCEPT !.op.set_calls =
                            Append(@, [ID |-> ID, value |-> value, force |-> force])],
                        thr, ID, value, force),
              thr, ID, value, from_inp, inform_listeners)

\* an input_callback that resolves every message on page 0
input_callback_page0(s, thr, channel_byte, number, value) ==
    set_control(s, thr, ccc2ID((channel_byte - CONTROL_CHANGE) + 1, number, 0),
                value, TRUE, TRUE, FALSE).s

\* Device.input_callback on the message [channel_byte, cc, value]
input_callback(s, thr, channel_byte, number, value) ==
    LET channel == (channel_byte - CONTROL_CHANGE) + 1
        ID1 == ccc2ID(channel, number, s.page)
        ID  == IF ID1 \notin DOMAIN s.controls THEN ccc2ID(channel, number, 0) ELSE ID1
    IN set_control(s, thr, ID, value, TRUE, TRUE, FALSE).s

\* BCR2k.page_update: the dials of the page now shown are sent out
RECURSIVE page_update_from(_, _)
page_update_from(s, i) ==
    IF i > Len(IDOrder) THEN s
    ELSE LET ID == IDOrder[i] IN
         page_update_from(
            IF ID \in Dials /\ ID \in (s.page * 16 * 128)..((s.page + 1) * 16 * 128 - 1)
              THEN cc(s, ID, s.controls[ID].value, FALSE) ELSE s,
            i + 1)

\* the setter of Device.page, executed on thread thr
set_page(s, thr, p) ==
    page_update_from(LogWrites([s EXCEPT !.page = IF p THEN 1 ELSE 0], thr, {"page"}), 1)

\* OutputPort.received -> inform_listeners: put_nowait((OutputEvent.CC, self,
\* channel, cc, value)); except Full: print
received(s, channel, number, value) ==
    IF Full(s.device_q, DeviceQMaxsize)
      THEN s
      ELSE [s EXCEPT !.device_q = put_nowait(@,
               [ev |-> "OutputEvent.CC", sender |-> "output",
                data |-> <<channel, number, value>>])]

(***************************************************************************)
(* targets: Parameter, SwitchView, PageFlip.  A Target object is a record, *)
(* Views and the registry refer to it by its name.                         *)
(***************************************************************************)
Parameter(channel, number, is_button) ==
    [type |-> "Parameter", value |-> 0, channel |-> channel, cc |-> number,
     is_button |-> is_button, view_name |-> "", modifiers |-> <<>>]

SwitchView(view_name) ==
    [type |-> "SwitchView", value |-> 0, channel |-> 0, cc |-> 0,
     is_button |-> FALSE, view_name |-> view_name, modifiers |-> <<>>]

PageFlip ==
    [type |-> "PageFlip", value |-> 0, channel |-> 0, cc |-> 0,
     is_button |-> FALSE, view_name |-> "", modifiers |-> <<>>]

\* FlexSetter: self.flex, the FlexParameter it sets ("" for None), and
\* self.deferred, the name kept for the first trigger ("" for None)
FlexSetter(flex, deferred) ==
    [type |-> "FlexSetter", value |-> 0, channel |-> 0, cc |-> 0,
     is_button |-> FALSE, view_name |-> "", modifiers |-> <<>>,
     link |-> flex, deferred |-> deferred]

\* FlexParameter: self.parameters, the Targets it is linked to
FlexParameter ==
    [type |-> "FlexParameter", value |-> 0, channel |-> 0, cc |-> 0,
     is_button |-> FALSE, view_name |-> "", modifiers |-> <<>>,
     parameters |-> {}]

\* SnapshotButton: self.selector, self.deferred, and for self.down the
\* seconds gone since the button went down (None before the first press)
SnapshotButton(selector, deferred) ==
    [type |-> "SnapshotButton", value |-> 0, channel |-> 0, cc |-> 0,
     is_button |-> FALSE, view_name |-> "", modifiers |-> <<>>,
     link |-> selector, deferred |-> deferred, held |-> None]

SnapshotSelector ==
    [type |-> "SnapshotSelector", value |-> 0, channel |-> 0, cc |-> 0,
     is_button |-> FALSE, view_name |-> "", modifiers |-> <<>>]

\* the subclasses of ValueTarget
ValueTargets ==
    {"Parameter", "FlexParameter", "SnapshotSelector", "ModPower", "ModConfig"}

\* isinstance(target, ValueTarget) / getattr(target, "value") succeeds
has_value(t) == t.type \in ValueTargets

\* getattr(target, "value") succeeds: a ModView sets self.value too
has_attribute_value(t) == has_value(t) \/ t.type = "ModView"

\* The numbers of the Modifiers are kept in 64ths: a power is n/64, as
\* ModPower sets it, and so is the offset modvalue * power.
Unit == 64

\* sum(d.values()) of a table d with the keys D
RECURSIVE SumOf(_, _)
RECURSIVE SumWith(_, _, _)
SumWith(d, D, k) == d[k] + SumOf(d, D \ {k})
SumOf(d, D) == IF D = {} THEN 0 ELSE SumWith(d, D, CHOOSE k \in D : TRUE)

\* int(x) of a number x given in 64ths: truncation toward zero
int(x) == IF x >= 0 THEN x \div Unit ELSE -((-x) \div Unit)

\* the property ValueTarget.value: int(clip(self.minimum, self.maximum,
\* self._value + sum(self.modifiers.values()))); the field value is the
\* center value _value, the field modifiers the table of the offsets (of
\* the Modifiers by their place in Interface.modifiers)
target_value(t) ==
    int(clip(0 * Unit, FULL * Unit,
             t.value * Unit + SumOf(t.modifiers, DOMAIN t.modifiers)))

\* Target.trigger_vals = list(range(128)); SwitchView.trigger_vals = [127];
\* SnapshotButton.trigger_vals = ModView.trigger_vals = [0, 127]
trigger_vals(t) ==
    IF t.type = "SwitchView" THEN {127}
    ELSE IF t.type \in {"SnapshotButton", "ModView"} THEN {0, 127}
    ELSE 0..127

\* FlexParameter.value with the FlexParameter among its own parameters:
\* the property asks itself for its value without end
value_raises(s, t) ==
    s.tobj[t].type = "FlexParameter" /\ t \in s.tobj[t].parameters

\* target.value: the property of ValueTarget; of a FlexParameter the value
\* of the Target it is linked to (the sets linked hold one Target), 0 if
\* it is linked to none
value_of(s, t) ==
    IF s.tobj[t].type = "FlexParameter"
      THEN IF s.tobj[t].parameters = {} THEN 0
           ELSE target_value(s.tobj[CHOOSE p \in s.tobj[t].parameters : TRUE])
      ELSE target_value(s.tobj[t])

\* FlexParameter.is_connected_to(target): target in self.parameters;
\* Target.is_connected_to: False
is_connected_to(s, t, target) ==
    s.tobj[t].type = "FlexParameter" /\ target \in s.tobj[t].parameters

\* Parameter.is_connected_to_output(channel, cc); the base class method
\* Target.is_connected_to_output(self, ID) takes one argument only
is_connected_to_output(t, channel, number) ==
    IF t.type = "Parameter"
      THEN IF channel = t.channel /\ number = t.cc THEN "yes" ELSE "no"
      ELSE "TypeError"

(***************************************************************************)
(* smci.view.View                                                          *)
(***************************************************************************)
\* View.__init__: the default configuration of every control, an empty map
NewViewMap == [ID \in ControlIDs |-> <<>>]
NewViewConf == [ID \in ControlIDs |-> default_conf]

\* View.map_this
map_this(s, v, ID, t) == [s EXCEPT !.vmap[v][ID] = Append(@, t)]

\* View.map.items() with the targets of each ID, as (ID, target) pairs in
\* the order the loops `for ID, targets in map.items(): for target in
\* targets` visit them
RECURSIVE map_items(_, _)
map_items(m, i) ==
    IF i > Len(IDOrder) THEN <<>>
    ELSE [k \in 1..Len(m[IDOrder[i]]) |-> <<IDOrder[i], m[IDOrder[i]][k]>>]
         \o map_items(m, i + 1)

\* View.find_IDs_by_target: one entry per occurrence of the target
find_IDs_by_target(s, t) ==
    LET items == map_items(s.vmap[s.view], 1) IN
    SelectSeq(items, LAMBDA it : it[2] = t \/ is_connected_to(s, it[2], t))

(***************************************************************************)
(* smci.interface.Interface, every method executed on thread thr           *)
(***************************************************************************)
\* Interface.view = None
NoView == "None"

\* a dict d with the key k set to v
with_key(d, k, v) == [j \in DOMAIN d \cup {k} |-> IF j = k THEN v ELSE d[j]]

\* a dict d without the key k: del d[k], the KeyError caught
without_key(d, k) == [j \in DOMAIN d \ {k} |-> d[j]]

\* Interface.to_output: self.output.cc(channel, cc, value), a call put on
\* the queue of the output Shell
to_output(s, channel, number, value) ==
    [s EXCEPT !.op.output_cc = Append(@, <<channel, number, value>>)]

\* _set_control after the call returned r.ret: if set_value is not None:
\* self.recent_changes["controls"][ID] = set_value
cache_set_value(r, ID) ==
    IF Failed(r.s) \/ r.ret = None THEN r.s
    ELSE [r.s EXCEPT !.recent_changes = with_key(@, ID, r.ret),
                     !.poll.since = with_key(@, ID, r.ret)]

\* Interface._set_control: self.input.set_control(ID, value,
\* force=force).get().  The call is executed by the worker of the input
\* Shell while thread thr blocks in get(); if thr is that worker, nobody
\* executes the call
_set_control(s, thr, ID, value, force) ==
    IF thr = WorkerOf("input")
      THEN Raise([s EXCEPT !.op.gets = @ \cup {[thread |-> thr, shell |-> "input"]}],
                 "Deadlock")
      ELSE cache_set_value(
              set_control(
                 [s EXCEPT !.op.gets = @ \cup {[thread |-> thr, shell |-> "input"]}],
                 WorkerOf("input"), ID, value, FALSE, FALSE, force),
              ID)

\* Interface.reflect_target_on_input, from entry i of the IDs found
RECURSIVE reflect_on(_, _, _, _, _, _)
reflect_on(s, thr, t, found, exclude_IDs, i) ==
    IF i > Len(found) \/ Failed(s) THEN s
    ELSE reflect_on(
            IF found[i][1] \in exclude_IDs THEN s
            ELSE IF value_raises(s, t) THEN Raise(s, "RecursionError")
            ELSE _set_control(s, thr, found[i][1], value_of(s, t), FALSE),
            thr, t, found, exclude_IDs, i + 1)

reflect_target_on_input(s, thr, t, exclude_IDs) ==
    reflect_on(s, thr, t, find_IDs_by_target(s, t), exclude_IDs, 1)

\* untouched.remove(ID) after the control was set: KeyError if the ID is
\* no longer in the set
untouched_remove(s, untouched, ID) ==
    IF Failed(s) THEN [s |-> s, untouched |-> untouched]
    ELSE IF ID \notin untouched
      THEN [s |-> Raise(s, "KeyError"), untouched |-> untouched]
    ELSE [s |-> s, untouched |-> untouched \ {ID}]

\* Interface.reflect_all_on_input: the loop over the map of the view ...
RECURSIVE reflect_mapped(_, _, _, _)
reflect_mapped(r, thr, items, i) ==
    IF Failed(r.s) \/ i > Len(items) THEN r
    ELSE IF ~has_attribute_value(r.s.tobj[items[i][2]])
      THEN reflect_mapped(r, thr, items, i + 1)
    ELSE IF value_raises(r.s, items[i][2])
      THEN [r EXCEPT !.s = Raise(@, "RecursionError")]
    ELSE reflect_mapped(
            untouched_remove(
               _set_control(r.s, thr, items[i][1],
                            value_of(r.s, items[i][2]), TRUE),
               r.untouched, items[i][1]),
            thr, items, i + 1)

\* ... and the loop over the controls left untouched
RECURSIVE reflect_untouched(_, _, _)
reflect_untouched(r, thr, i) ==
    IF i > Len(IDOrder) \/ Failed(r.s) THEN r.s
    ELSE IF IDOrder[i] \in r.untouched
      THEN reflect_untouched(
              [s |-> _set_control(r.s, thr, IDOrder[i], 0, TRUE),
               untouched |-> r.untouched],
              thr, i + 1)
    ELSE reflect_untouched(r, thr, i + 1)

reflect_all_on_input(s, thr) ==
    reflect_untouched(
        reflect_mapped([s |-> s, untouched |-> DOMAIN s.controls], thr,
                       map_items(s.vmap[s.view], 1), 1),
        thr, 1)

\* the names the makers give, "%s_%i" % (prefix, index), for the indices
\* the model reaches
CCNames == <<"CC_1", "CC_2", "CC_3">>
VNames == <<"V_1", "V_2", "V_3">>

\* A Target object is known by its name; a second object constructed with
\* a name that an object already has is known by the name and a mark.
second(name) == name \o "'"
MadeNames == {CCNames[k] : k \in DOMAIN CCNames} \cup {VNames[k] : k \in DOMAIN VNames}

\* Target.name of the object t
name_of(t) ==
    IF \E n \in MadeNames : second(n) = t
      THEN CHOOSE n \in MadeNames : second(n) = t
      ELSE t

\* the object a new Target of this name is
new_object(s, name) == IF name \in DOMAIN s.tobj THEN second(name) ELSE name

\* `target.name in self.targets`
name_taken(s, name) == \E r \in s.targets : name_of(r) = name

\* self.targets[name]
registered(s, name) == CHOOSE r \in s.targets : name_of(r) = name

\* Interface.add_target: a name already registered is ignored
add_target(s, t) ==
    IF name_taken(s, name_of(t)) THEN s ELSE [s EXCEPT !.targets = @ \cup {t}]

\* a Target object constructed
new_target(s, name, t) ==
    [s EXCEPT !.tobj = [n \in DOMAIN @ \cup {name} |-> IF n = name THEN t ELSE @[n]]]

\* add_view: `for target in targets: self.add_target(target)`
RECURSIVE add_targets(_, _, _)
add_targets(s, items, i) ==
    IF i > Len(items) THEN s
    ELSE add_targets(add_target(s, items[i][2]), items, i + 1)

\* a View object constructed: View(self.input, name)
new_view(s, name) ==
    [s EXCEPT !.vmap = [n \in DOMAIN @ \cup {name} |-> IF n = name THEN NewViewMap ELSE @[n]],
              !.vconf = [n \in DOMAIN @ \cup {name} |-> IF n = name THEN NewViewConf ELSE @[n]]]

\* Interface.add_view
add_view(s, v) ==
    IF \E k \in 1..Len(s.views) : s.views[k] = v THEN s
    ELSE add_targets([s EXCEPT !.views = Append(@, v)],
                     map_items(s.vmap[v], 1), 1)

\* the loop of switch_to_view over self.input.controls.items():
\* control.configure(view.configuration[ID]), executed by the caller
configure_all(s, thr, v) ==
    LogWrites([s EXCEPT !.controls = [ID \in DOMAIN @ |->
                                         configure(@[ID], s.vconf[v][ID])]],
              thr, {"conf"})

\* a comparison of views that never finds them the same
never_same_view(a, b) == FALSE

\* View.__eq__: self.name == other.name (a view is known by its name)
same_view(a, b) == a = b

\* Interface.switch_to_view(view, temp) with a View object
switch_to_view_object(s, thr, v, temp) ==
    IF same_view(s.view, v) THEN s
    ELSE reflect_all_on_input(
            IF temp THEN configure_all([s EXCEPT !.view = v], thr, v)
                    ELSE add_view(configure_all([s EXCEPT !.view = v], thr, v), v),
            thr)

\* a lookup by name that returns without a word when it finds no view
switch_to_view_silent(s, thr, name, temp) ==
    IF \A k \in 1..Len(s.views) : s.views[k] # name THEN s
    ELSE switch_to_view_object(s, thr, name, temp)

\* Interface.switch_to_view(view, temp) with a name: the views of the
\* catalog with that name must be exactly one
switch_to_view(s, thr, name, temp) ==
    LET found == SelectSeq(s.views, LAMBDA v : v = name) IN
    IF Len(found) # 1 THEN Raise(s, "KeyError")
    ELSE switch_to_view_object(s, thr, found[1], temp)
(***************************************************************************)
(* Interface.save_snapshot and Interface.load_snapshot                     *)
(***************************************************************************)
\* the keys of self.targets
target_names(s) == {name_of(r) : r \in s.targets}

\* str(slot)
str(slot) == ToString(slot)

\* ValueTarget.save: {"_value": self._value, "modifiers": self.modifiers}.
\* The second item is the table of the Target itself, not a copy of it:
\* the snapshot holds it by the Target it belongs to.  Target.save: {}
save(s, t) ==
    IF has_value(s.tobj[t])
      THEN [_value |-> s.tobj[t].value, modifiers |-> t]
      ELSE [_value |-> None, modifiers |-> ""]

\* ValueTarget.load: self._value = d["_value"]; self.modifiers =
\* d["modifiers"], the table as it is now.  Target.load: pass
load(s, t, d) ==
    IF has_value(s.tobj[t])
      THEN [s.tobj[t] EXCEPT !.value = d._value,
                             !.modifiers = s.tobj[d.modifiers].modifiers]
      ELSE s.tobj[t]

\* Modifier.save
Modifier_save(mod) ==
    [_value |-> mod.value, _amplitude |-> mod.amplitude,
     targets |-> [n \in {name_of(t) : t \in DOMAIN mod.targets} |->
                    mod.targets[CHOOSE t \in DOMAIN mod.targets : name_of(t) = n]]]

\* Modifier.load(d, i): a name that i.targets does not hold is printed
Modifier_load(s, mod, d) ==
    [mod EXCEPT !.value = d._value, !.amplitude = d._amplitude,
                !.targets = [t \in {registered(s, n) :
                                      n \in {m \in DOMAIN d.targets : name_taken(s, m)}}
                               |-> d.targets[name_of(t)]]]

\* the places of the Modifiers of a name
named(s, name) == {k \in 1..Len(s.modifiers) : s.modifiers[k].name = name}

\* Interface.get_modifier: the first Modifier of the name
get_modifier(s, name) == CHOOSE k \in named(s, name) : \A j \in named(s, name) : k <= j

\* Interface.save_snapshot(slot); `was` is history: the Targets and the
\* Modifiers as they were when the snapshot was saved
save_snapshot(s, slot) ==
    [s EXCEPT !.snapshots = with_key(@, str(slot),
        [targets |-> [n \in target_names(s) |-> save(s, registered(s, n))],
         modifiers |-> [n \in {s.modifiers[k].name : k \in 1..Len(s.modifiers)} |->
                          Modifier_save(s.modifiers[get_modifier(s, n)])],
         was |-> [tobj |-> s.tobj, modifiers |-> s.modifiers]])]

\* load_snapshot, the Targets: a name that is not registered is printed
load_targets(s, snap) ==
    [s EXCEPT !.tobj = [t \in DOMAIN @ |->
        IF t \in s.targets /\ name_of(t) \in DOMAIN snap.targets
          THEN load(s, t, snap.targets[name_of(t)])
          ELSE @[t]]]

\* load_snapshot, the Modifiers: get_modifier raises KeyError for a name
\* that no Modifier has
load_modifiers_of(s, snap) ==
    IF \E n \in DOMAIN snap.modifiers : named(s, n) = {}
      THEN Raise(s, "KeyError")
      ELSE [s EXCEPT !.modifiers = [k \in DOMAIN @ |->
              IF @[k].name \in DOMAIN snap.modifiers /\ k = get_modifier(s, @[k].name)
                THEN Modifier_load(s, @[k], snap.modifiers[@[k].name])
                ELSE @[k]]]

\* load_snapshot of a slot that holds a snapshot
load_saved(s, thr, snap) ==
    IF Failed(load_modifiers_of(load_targets(s, snap), snap))
      THEN load_modifiers_of(load_targets(s, snap), snap)
      ELSE reflect_all_on_input(load_modifiers_of(load_targets(s, snap), snap), thr)

\* Interface.load_snapshot(slot)
load_snapshot(s, thr, slot) ==
    IF str(slot) \notin DOMAIN s.snapshots THEN s
    ELSE load_saved(s, thr, s.snapshots[str(slot)])


\* Interface.target_triggered: a trigger by a sender that is neither device
target_triggered(s, thr, t, value) ==
    IF value = None THEN s
    ELSE reflect_on(s, thr, t, find_IDs_by_target(s, t), {}, 1)

\* Target.trigger
Target_trigger(s, thr, t, sender, value) ==
    IF sender \notin {"input", "output"}
      THEN target_triggered(s, thr, t, value) ELSE s

\* a Parameter that sends to the output whoever triggered it
forwards_always(sender) == TRUE

\* a Parameter that never sends to the output
forwards_never(sender) == FALSE

\* Parameter.trigger: if sender != self.parent.output
forwards_to_output(sender) == sender # "output"

\* ValueTarget.assume_center_value: the difference between the value given
\* and the modified value is added to the center value
assume_center_value(s, t, value) ==
    [s EXCEPT !.tobj[t].value = @ + (value - target_value(s.tobj[t]))]

\* Parameter.trigger, the assignment: with modifiers the center value is
\* moved; else self.value = value, a button
\* Parameter taking 127 for whatever is true and 0 otherwise
Parameter_assign(s, t, value) ==
    IF value = None THEN s
    ELSE IF DOMAIN s.tobj[t].modifiers # {}
      THEN assume_center_value(s, t, value)
    ELSE IF s.tobj[t].is_button
      THEN [s EXCEPT !.tobj[t].value = IF value # 0 THEN 127 ELSE 0]
    ELSE [s EXCEPT !.tobj[t].value = value]

\* Parameter.trigger after the assignment: to_output unless the sender is
\* the output, Target.trigger, return self.value
Parameter_forward(s, thr, t, sender) ==
    [s |-> Target_trigger(
              IF forwards_to_output(sender)
                THEN to_output(s, s.tobj[t].channel, s.tobj[t].cc,
                               target_value(s.tobj[t]))
                ELSE s,
              thr, t, sender, target_value(s.tobj[t])),
     ret |-> target_value(s.tobj[t])]

\* Parameter.trigger; the result is the state and the value returned
Parameter_trigger(s, thr, t, sender, value) ==
    Parameter_forward(Parameter_assign(s, t, value), thr, t, sender)

\* PageFlip.trigger: self.device.page = 1 if value >= 64 else 0, an
\* attribute set through Shell.__setattr__, which runs the setter of page
\* on the thread of the caller
PageFlip_trigger(s, thr, t, sender, value) ==
    [s |-> set_page(Target_trigger(s, thr, t, sender, value), thr, value >= 64),
     ret |-> None]

\* SwitchView.trigger: self.parent.switch_to_view(self.view_name)
SwitchView_trigger(s, thr, t, sender, value) ==
    [s |-> switch_to_view(Target_trigger(s, thr, t, sender, value), thr,
                          s.tobj[t].view_name, FALSE),
     ret |-> None]

\* FlexParameter.link(targets): self.parameters = set(targets);
\* ft = next(iter(targets)) raises StopIteration on an empty set;
\* self._value = ft.value; self.parent.target_triggered(self, ...)
FlexParameter_linked(s, thr, t) ==
    target_triggered([s EXCEPT !.tobj[t].value = value_of(s, t)], thr, t,
                     value_of(s, t))

FlexParameter_link(s, thr, t, linked) ==
    IF linked = {}
      THEN Raise([s EXCEPT !.tobj[t].parameters = {}], "StopIteration")
    ELSE IF t \in linked
      THEN Raise([s EXCEPT !.tobj[t].parameters = linked], "RecursionError")
    ELSE FlexParameter_linked([s EXCEPT !.tobj[t].parameters = linked], thr, t)

\* FlexSetter.trigger: `if self.deferred:` evaluates d[self.deferred], and
\* the method has no name d; `if value:` links the FlexParameter with the
\* Targets last modified.  The method returns None
FlexSetter_trigger(s, thr, t, sender, value) ==
    [s |-> IF s.tobj[t].deferred # "" THEN Raise(s, "NameError")
           ELSE IF value = None \/ value = 0 THEN s
           ELSE IF s.tobj[t].link = "" THEN Raise(s, "AttributeError")
           ELSE FlexParameter_link(s, thr, s.tobj[t].link, s.last_modified_targets),
     ret |-> None]

\* FlexParameter.trigger: parameter.trigger(self, value) for the Target
\* linked, a Parameter, and its result returned; linked to itself the
\* FlexParameter calls itself without end
FlexParameter_forward(s, thr, t, p, value) ==
    IF p = t THEN [s |-> Raise(s, "RecursionError"), ret |-> None]
    ELSE Parameter_trigger([s EXCEPT !.op.triggered = Append(@, p)], thr, p, t,
                           value)

FlexParameter_trigger(s, thr, t, sender, value) ==
    IF s.tobj[t].parameters = {} THEN [s |-> s, ret |-> None]
    ELSE FlexParameter_forward(s, thr, t,
                               CHOOSE p \in s.tobj[t].parameters : TRUE, value)

\* snap.py:17  LONGPRESS_THRESHOLD = 1, in seconds
LONGPRESS_THRESHOLD == 1

\* SnapshotSelector.issue_load / issue_save after a press of delta seconds
SnapshotButton_released(s, thr, selector, delta) ==
    IF selector = "" THEN Raise(s, "AttributeError")
    ELSE IF delta < LONGPRESS_THRESHOLD
      THEN load_snapshot(s, thr, value_of(s, selector))
    ELSE save_snapshot(s, value_of(s, selector))

\* SnapshotButton.trigger: the deferred name as in FlexSetter.trigger; 127
\* notes the time, 0 loads after a short press and saves after a long one
\* (self.down is no attribute before the first press)
SnapshotButton_trigger(s, thr, t, sender, value) ==
    [s |-> IF s.tobj[t].deferred # "" THEN Raise(s, "NameError")
           ELSE IF value = 127 THEN [s EXCEPT !.tobj[t].held = 0]
           ELSE IF value # 0 THEN s
           ELSE IF s.tobj[t].held = None THEN Raise(s, "AttributeError")
           ELSE SnapshotButton_released(s, thr, s.tobj[t].link, s.tobj[t].held),
     ret |-> None]

(***************************************************************************)
(* targets.modview: ModPower, ModConfig and ModView.  The time is counted  *)
(* in tenths of a second.                                                  *)
(***************************************************************************)
\* Modifier.target(target, power) of the Modifier at place k
Modifier_target(s, k, t, power) ==
    IF power = 0
      THEN [s EXCEPT !.modifiers[k].targets = without_key(@, t)]
      ELSE [s EXCEPT !.modifiers[k].targets = with_key(@, t, power)]

\* modview.py:16  LONGPRESS_TIME = 0.5, in seconds
LONGPRESS_TIME == 5

\* "%s_ModView" % self.modifier and "%s_ModConfigView" % self.modifier: the
\* repr of a Modifier is the name of its class
power_view_name == "Basic_ModView"
config_view_name == "Basic_ModConfigView"

\* ModView.__init__ with the Modifier at place k: self.time_pressed is the
\* time gone since the press (None for None)
ModView(k) ==
    [type |-> "ModView", value |-> 0, channel |-> 0, cc |-> 0,
     is_button |-> FALSE, view_name |-> "", modifiers |-> <<>>,
     modifier |-> k, prev_view |-> NoView, time_pressed |-> None,
     in_config_view |-> FALSE]

\* ModPower.__init__: initial = 64 + modifier.targets.get(target, 0) * 64
ModPower(s, k, target) ==
    [type |-> "ModPower",
     value |-> 64 + (IF target \in DOMAIN s.modifiers[k].targets
                       THEN s.modifiers[k].targets[target] ELSE 0),
     channel |-> 0, cc |-> 0, is_button |-> FALSE, view_name |-> "",
     modifiers |-> <<>>, modifier |-> k, target |-> target]

\* ModConfig.__init__: initial = self.map_to_control(getattr(modifier, name))
ModConfig(attribute) ==
    [type |-> "ModConfig", value |-> attribute.initial, channel |-> 0,
     cc |-> 0, is_button |-> FALSE, view_name |-> "", modifiers |-> <<>>,
     readonly |-> attribute.readonly]

\* ModPower.trigger: self.value = value; the power of the Modifier on the
\* target becomes (self.value - 64) / 64; Target.trigger; return self.value
ModPower_assign(s, t, value) ==
    IF value = None THEN s ELSE [s EXCEPT !.tobj[t].value = value]

ModPower_forward(s, thr, t, sender) ==
    [s |-> Target_trigger(
              Modifier_target(s, s.tobj[t].modifier, s.tobj[t].target,
                              target_value(s.tobj[t]) - 64),
              thr, t, sender, target_value(s.tobj[t])),
     ret |-> target_value(s.tobj[t])]

ModPower_trigger(s, thr, t, sender, value) ==
    ModPower_forward(ModPower_assign(s, t, value), thr, t, sender)

\* ModConfig.trigger: real_value = super().trigger(sender, value) is None,
\* Target.trigger returns nothing; map_from_control(None) of an attribute
\* that is not read-only raises TypeError
ModConfig_trigger(s, thr, t, sender, value) ==
    [s |-> IF s.tobj[t].readonly THEN Target_trigger(s, thr, t, sender, value)
           ELSE Raise(Target_trigger(s, thr, t, sender, value), "TypeError"),
     ret |-> None]

\* the descriptor of the value of the Modifier, shown by a ModConfig on a
\* DummyModifier: int((0.0 + 1.0) / 2.0 * 127)
ValueAttribute ==
    [name |-> "value", type |-> "span", readonly |-> TRUE, initial |-> 63]

\* attribute_mapping.AttributeGapSpan
AttributeGapSpan ==
    [name |-> "_gap_span", type |-> "span", readonly |-> TRUE, initial |-> 0]

\* Basic.attribute_configs; initial is map_to_control of the attribute of a
\* Basic as it is constructed
attribute_configs ==
    <<[name |-> "freq_sync", type |-> "span", readonly |-> FALSE, initial |-> 47],
      [name |-> "amplitude", type |-> "span", readonly |-> FALSE, initial |-> FULL],
      [name |-> "offset", type |-> "span", readonly |-> FALSE, initial |-> 63],
      AttributeGapSpan, AttributeGapSpan, AttributeGapSpan, AttributeGapSpan,
      [name |-> "lfo", type |-> "span", readonly |-> FALSE, initial |-> 0],
      [name |-> "frequency", type |-> "span", readonly |-> FALSE, initial |-> 34],
      [name |-> "positive", type |-> "boolean", readonly |-> FALSE, initial |-> 0],
      [name |-> "synced", type |-> "boolean", readonly |-> FALSE, initial |-> FULL]>>

\* Interface.universal_controls as the profile sets them: the dials for the
\* spans, a row of menu buttons for the booleans
universal_controls ==
    [span |-> <<MainDial, MainDial2>>, boolean |-> <<MenuButton>>]

\* Interface.get_universal_controls_as_iterators(exclude)
get_universal_controls_as_iterators(exclude) ==
    [a \in DOMAIN universal_controls |->
        SelectSeq(universal_controls[a], LAMBDA i : i # exclude)]

\* view.find_IDs_by_target(target) of the view v
find_IDs_in(s, v, t) ==
    SelectSeq(map_items(s.vmap[v], 1),
              LAMBDA it : it[2] = t \/ is_connected_to(s, it[2], t))

\* construct_power_view, the loop over prev_view.map: a ModPower for every
\* ValueTarget on a control that is no Button, kept in power_view_targets
power_name(target) == target \o "_Basic_PWR"

power_target(s, t, target) ==
    IF power_name(target) \in DOMAIN s.tobj THEN s
    ELSE new_target(s, power_name(target),
                    ModPower(s, s.tobj[t].modifier, target))

RECURSIVE power_targets(_, _, _, _)
power_targets(r, t, items, i) ==
    IF i > Len(items) THEN r
    ELSE IF has_value(r.s.tobj[items[i][2]])
            /\ r.s.controls[items[i][1]].kind # "Button"
      THEN power_targets(
              [s |-> power_target(r.s, t, items[i][2]),
               map |-> [r.map EXCEPT ![items[i][1]] =
                           Append(@, power_name(items[i][2]))],
               conf |-> r.conf],
              t, items, i + 1)
    ELSE power_targets(r, t, items, i + 1)

\* ... and the button: ID = self.prev_view.find_IDs_by_target(self)[0]
map_back(r, t, found, blink) ==
    IF found = <<>> THEN [r EXCEPT !.s = Raise(@, "IndexError")]
    ELSE [r EXCEPT !.map[found[1][1]] = Append(@, t),
                   !.conf[found[1][1]].toggle = FALSE,
                   !.conf[found[1][1]].blink = blink \/ @]

\* ModView.construct_power_view: the state with the targets constructed,
\* the map and the configuration of the temporary View
construct_power_view(s, t) ==
    map_back(
       power_targets([s |-> s, map |-> NewViewMap, conf |-> NewViewConf], t,
                     map_items(s.vmap[s.tobj[t].prev_view], 1), 1),
       t, find_IDs_in(s, s.tobj[t].prev_view, t), FALSE)

\* construct_config_view, map_modconfig_target: the ModConfig of the
\* attribute, kept in config_view_targets, on the next universal control
\* of its type, if one is left
config_target(s, t, attribute) ==
    IF attribute.name \in DOMAIN s.tobj THEN s
    ELSE IF attribute.name = "value"
      THEN Modifier_target(new_target(s, attribute.name, ModConfig(attribute)),
                           s.tobj[t].modifier, attribute.name, Unit \div 2)
    ELSE new_target(s, attribute.name, ModConfig(attribute))

map_modconfig_target(r, t, attribute) ==
    IF r.type_IDs[attribute.type] = <<>>
      THEN [r EXCEPT !.s = config_target(@, t, attribute)]
      ELSE [r EXCEPT !.s = config_target(@, t, attribute),
                     !.map[Head(r.type_IDs[attribute.type])] =
                         Append(@, attribute.name),
                     !.type_IDs[attribute.type] = Tail(@)]

RECURSIVE config_targets(_, _, _)
config_targets(r, t, i) ==
    IF i > Len(attribute_configs) THEN r
    ELSE config_targets(map_modconfig_target(r, t, attribute_configs[i]),
                        t, i + 1)

config_view_from(r, t, found) ==
    IF found = <<>> THEN r
    ELSE config_targets(
            map_modconfig_target(
               [s |-> r.s, map |-> r.map, conf |-> r.conf,
                type_IDs |-> get_universal_controls_as_iterators(found[1][1])],
               t, ValueAttribute),
            t, 1)

\* ModView.construct_config_view
construct_config_view(s, t) ==
    config_view_from(
       map_back([s |-> s, map |-> NewViewMap, conf |-> NewViewConf], t,
                find_IDs_in(s, s.tobj[t].prev_view, t), TRUE),
       t, find_IDs_in(s, s.tobj[t].prev_view, t))

\* self.parent.switch_to_view(view, temp=True) with the View constructed:
\* the View is known by its name
switch_to_constructed(r, thr, name) ==
    IF Failed(r.s) \/ same_view(r.s.view, name) THEN r.s
    ELSE switch_to_view_object(
            [r.s EXCEPT !.vmap = with_key(@, name, r.map),
                        !.vconf = with_key(@, name, r.conf)],
            thr, name, TRUE)

\* ModView.enter_power_view
enter_power_view(s, thr, t) ==
    switch_to_constructed(construct_power_view(s, t), thr, power_view_name)

\* ModView.enter_config_view
enter_config_view(s, thr, t) ==
    switch_to_constructed(
       construct_config_view([s EXCEPT !.tobj[t].time_pressed = None,
                                       !.tobj[t].in_config_view = TRUE], t),
       thr, config_view_name)

\* self.parent.switch_to_view(self.prev_view): temp is False; View.__eq__
\* of the active view asks None for its name
switch_to_prev_view(s, thr, t) ==
    IF s.tobj[t].prev_view = NoView THEN Raise(s, "AttributeError")
    ELSE switch_to_view_object(s, thr, s.tobj[t].prev_view, FALSE)

\* ModView.go_back
go_back(s, thr, t) ==
    switch_to_prev_view([s EXCEPT !.tobj[t].time_pressed = None,
                                  !.tobj[t].in_config_view = FALSE], thr, t)

\* ModView.trigger with 127
ModView_pressed(s, thr, t) ==
    IF s.tobj[t].in_config_view THEN [s EXCEPT !.tobj[t].value = 127]
    ELSE enter_power_view([s EXCEPT !.tobj[t].value = 127,
                                    !.tobj[t].time_pressed = 0,
                                    !.tobj[t].prev_view = s.view], thr, t)

\* ModView.trigger with 0
ModView_released(s, thr, t) ==
    IF ~s.tobj[t].in_config_view /\ s.tobj[t].time_pressed # None
       /\ s.tobj[t].time_pressed <= LONGPRESS_TIME
      THEN enter_config_view([s EXCEPT !.tobj[t].value = 0], thr, t)
      ELSE go_back([s EXCEPT !.tobj[t].value = 0], thr, t)

ModView_switch(s, thr, t, value) ==
    IF Failed(s) THEN s
    ELSE IF value = 127 THEN ModView_pressed(s, thr, t)
    ELSE IF value = 0 THEN ModView_released(s, thr, t)
    ELSE s

\* ModView.trigger: the ModView has its Modifier; the method returns None
ModView_trigger(s, thr, t, sender, value) ==
    [s |-> ModView_switch(Target_trigger(s, thr, t, sender, value), thr, t, value),
     ret |-> None]

\* target.trigger(sender, value), by the class of the target;
\* SnapshotSelector has the method of Target
trigger_class(s, thr, t, sender, value) ==
    IF s.tobj[t].type = "Parameter" THEN Parameter_trigger(s, thr, t, sender, value)
    ELSE IF s.tobj[t].type = "PageFlip" THEN PageFlip_trigger(s, thr, t, sender, value)
    ELSE IF s.tobj[t].type = "FlexSetter" THEN FlexSetter_trigger(s, thr, t, sender, value)
    ELSE IF s.tobj[t].type = "FlexParameter" THEN FlexParameter_trigger(s, thr, t, sender, value)
    ELSE IF s.tobj[t].type = "SnapshotButton" THEN SnapshotButton_trigger(s, thr, t, sender, value)
    ELSE IF s.tobj[t].type = "SnapshotSelector"
      THEN [s |-> Target_trigger(s, thr, t, sender, value), ret |-> None]
    ELSE IF s.tobj[t].type = "ModView" THEN ModView_trigger(s, thr, t, sender, value)
    ELSE IF s.tobj[t].type = "ModPower" THEN ModPower_trigger(s, thr, t, sender, value)
    ELSE IF s.tobj[t].type = "ModConfig" THEN ModConfig_trigger(s, thr, t, sender, value)
    ELSE SwitchView_trigger(s, thr, t, sender, value)

trigger(s, thr, t, sender, value) ==
    trigger_class([s EXCEPT !.op.triggered = Append(@, t)], thr, t, sender, value)

\* from_input after target.trigger returned r.ret: a value that differs
\* from the one received is set on the control ...
from_input_correct(r, thr, ID, value) ==
    IF Failed(r.s) THEN r.s
    ELSE IF r.ret # None /\ value # r.ret
      THEN _set_control(r.s, thr, ID, r.ret, FALSE)
    ELSE [r.s EXCEPT !.recent_changes = with_key(@, ID, r.ret),
                     !.poll.since = with_key(@, ID, r.ret)]

\* from_input after target.trigger returned r.ret: a ValueTarget that
\* returned a value is added to the local set modified_targets
from_input_modified(r, t) ==
    IF Failed(r.s) \/ ~has_value(r.s.tobj[t]) \/ r.ret = None THEN r
    ELSE [r EXCEPT !.s.op.modified_targets = @ \cup {t}]

\* a reflection that spares no control
from_input_reflect_all(s, thr, t, ID) ==
    IF Failed(s) THEN s ELSE reflect_target_on_input(s, thr, t, {})

\* ... and the target is reflected on the other controls mapped to it
from_input_reflect(s, thr, t, ID) ==
    IF Failed(s) THEN s ELSE reflect_target_on_input(s, thr, t, {ID})

\* the loop of from_input over the targets mapped to the ID
RECURSIVE from_input_targets(_, _, _, _, _, _, _)
from_input_targets(s, thr, sender, ID, value, tlist, i) ==
    IF i > Len(tlist) \/ Failed(s) THEN s
    ELSE IF unify(value) \notin trigger_vals(s.tobj[tlist[i]])
      THEN from_input_targets(s, thr, sender, ID, value, tlist, i + 1)
    ELSE from_input_targets(
            from_input_reflect(
               from_input_correct(
                  from_input_modified(trigger(s, thr, tlist[i], sender, value),
                                      tlist[i]),
                  thr, ID, value),
               thr, tlist[i], ID),
            thr, sender, ID, value, tlist, i + 1)

\* the end of from_input: if modified_targets:
\* self.last_modified_targets = modified_targets
\* (the local set ends with the call)
from_input_end(s) ==
    IF Failed(s) \/ s.op.modified_targets = {}
      THEN [s EXCEPT !.op.modified_targets = {}]
      ELSE [s EXCEPT !.last_modified_targets = s.op.modified_targets,
                     !.op.modified_targets = {}]

\* Interface.from_input
from_input(s, thr, sender, ID, value) ==
    IF s.view = NoView THEN Raise(s, "AttributeError") ELSE
    from_input_end(
       from_input_targets([s EXCEPT !.op.modified_targets = {}],
                          thr, sender, ID, value,
                          IF ID \in DOMAIN s.vmap[s.view]
                            THEN s.vmap[s.view][ID] ELSE <<>>, 1))

\* the first loop of from_output: the targets of the view connected to the
\* address; the call target.is_connected_to_output(channel, cc) on a target
\* that is no Parameter raises TypeError
RECURSIVE connected_targets(_, _, _, _, _, _)
connected_targets(s, items, channel, number, i, found) ==
    IF i > Len(items) THEN [found |-> found, exc |-> "none"]
    ELSE IF is_connected_to_output(s.tobj[items[i][2]], channel, number) = "TypeError"
      THEN [found |-> found, exc |-> "TypeError"]
    ELSE connected_targets(s, items, channel, number, i + 1,
            IF is_connected_to_output(s.tobj[items[i][2]], channel, number) = "yes"
              THEN Append(found, items[i][2]) ELSE found)

\* from_output after target.trigger: the target reflected on the input
from_output_reflect(s, thr, t) ==
    IF Failed(s) THEN s ELSE reflect_target_on_input(s, thr, t, {})

\* the second loop of from_output
RECURSIVE from_output_targets(_, _, _, _, _, _)
from_output_targets(s, thr, sender, value, tlist, i) ==
    IF i > Len(tlist) \/ Failed(s) THEN s
    ELSE IF unify(value) \notin trigger_vals(s.tobj[tlist[i]])
      THEN from_output_targets(s, thr, sender, value, tlist, i + 1)
    ELSE from_output_targets(
            from_output_reflect(trigger(s, thr, tlist[i], sender, value).s,
                                thr, tlist[i]),
            thr, sender, value, tlist, i + 1)

\* from_output with the targets found
from_output_found(s, thr, sender, value, c) ==
    IF c.exc # "none" THEN Raise(s, c.exc)
    ELSE from_output_targets(s, thr, sender, value, c.found, 1)

\* Interface.from_output
from_output(s, thr, sender, channel, number, value) ==
    from_output_found(s, thr, sender, value,
        connected_targets(s, map_items(s.vmap[s.view], 1), channel, number, 1, <<>>))

\* Interface.device_event_callback(self, sender, ID, value), called as
\* func(*data) with the items of the event after its type: a call with
\* more than three arguments raises TypeError, and so does the call
\* self.from_output(sender, ID, value), which lacks an argument
device_event_callback(s, thr, data) ==
    IF Len(data) # 3 THEN Raise(s, "TypeError")
    ELSE IF data[1] = "input" THEN from_input(s, thr, "input", data[2], data[3])
    ELSE IF data[1] = "output" THEN Raise(s, "TypeError")
    ELSE s

\* Interface.update: up to max_messages events taken from device_q and
\* dispatched; an exception of a handler ends the update (main_loop
\* catches it)
RECURSIVE update(_, _, _)
update(s, thr, max_messages) ==
    IF max_messages = 0 \/ s.device_q = <<>> \/ Failed(s) THEN s
    ELSE update(
            device_event_callback(
               [s EXCEPT !.device_q = Without(@, get_nowait(s.device_q)),
                         !.op.consumed = Append(@, s.device_q[get_nowait(s.device_q)])],
               thr,
               <<s.device_q[get_nowait(s.device_q)].sender>>
                   \o s.device_q[get_nowait(s.device_q)].data),
            thr, max_messages - 1)

\* Interface.update after the events: `for m in self.modifiers:
\* m.tick(time_now)` with time_now = time.time(), a float, of which
\* Basic.calculate reads the attribute prog or delta
tick_all(s) ==
    IF Failed(s) \/ s.modifiers = <<>> THEN s ELSE Raise(s, "AttributeError")

(***************************************************************************)
(* smci.makers                                                             *)
(***************************************************************************)
\* "%s_%i" % (prefix, index)
format_name(prefix, i) == IF prefix = "CC" THEN CCNames[i] ELSE VNames[i]

\* ParameterMaker.advance: the next cc that is not forbidden (123); past
\* 128 the next channel, or exhausted after channel 16
advance(m) ==
    LET n == IF m.next_cc + 1 = 123 THEN m.next_cc + 2 ELSE m.next_cc + 1 IN
    IF n > 128
      THEN IF m.channel < 16
             THEN [m EXCEPT !.next_cc = 1, !.channel = @ + 1]
             ELSE [m EXCEPT !.next_cc = n, !.exhausted = TRUE]
      ELSE [m EXCEPT !.next_cc = n]

\* t = Parameter(name, ...); self.advance(): the state and the new object
ParameterMaker_made(s, t, is_button) ==
    [s |-> [new_target(s, t, Parameter(s.maker.channel, s.maker.next_cc, is_button))
              EXCEPT !.maker = advance(@)],
     t |-> t]

\* ParameterMaker.make: the state and the new Parameter
ParameterMaker_make(s, is_button) ==
    IF s.maker.exhausted THEN [s |-> Raise(s, "Exhausted"), t |-> ""]
    ELSE ParameterMaker_made(s, new_object(s, format_name("CC", s.maker.next_cc)),
                             is_button)

\* t = SwitchView(name, self.interface, view); self.next_index += 1
ViewMaker_made(s, t, v) ==
    [s |-> [new_target(s, t, SwitchView(v)) EXCEPT !.maker.next_index = @ + 1],
     t |-> t, view |-> v]

\* ViewMaker.make(view): the state, the new SwitchView target and the view
\* it switches to (a new View if none is given)
ViewMaker_make(s, to_view) ==
    IF to_view = ""
      THEN ViewMaker_made(new_view(s, format_name("V", s.maker.next_index)),
                          new_object(s, format_name("V", s.maker.next_index)),
                          format_name("V", s.maker.next_index))
      ELSE ViewMaker_made(s, new_object(s, format_name("V", s.maker.next_index)),
                          to_view)

\* self.add_target(t); self.view.map_this(ID, t) with the target made
add_and_map(r, ID) ==
    IF Failed(r.s) THEN r.s
    ELSE map_this(add_target(r.s, r.t), r.s.view, ID, r.t)

\* Interface.quick_parameter
quick_parameter(s, ID, is_button) ==
    add_and_map(ParameterMaker_make(s, is_button), ID)

\* Interface.quick_view(ID, to_view, on_view) with the target made
quick_view_map(r, ID, on_view) ==
    IF on_view # "" THEN map_this(r.s, on_view, ID, r.t) ELSE add_and_map(r, ID)

\* Interface.quick_view(ID, to_view, on_view)
quick_view(s, ID, to_view, on_view) ==
    quick_view_map(ViewMaker_make(s, to_view), ID, on_view)

(***************************************************************************)
(* The state after construction                                            *)
(***************************************************************************)
\* Interface.__init__ on a BCR2k: the view "Init" is active and the only
\* one of the catalog, nothing is mapped, the event queue is empty
Constructed ==
    [controls |-> setup_controls,
     page     |-> 0,
     view     |-> "Init",
     views    |-> <<"Init">>,
     vmap     |-> [n \in {"Init"} |-> NewViewMap],
     vconf    |-> [n \in {"Init"} |-> NewViewConf],
     targets  |-> {},
     tobj     |-> [n \in {} |-> PageFlip],
     maker    |-> [channel |-> 1, next_cc |-> 1, exhausted |-> FALSE,
                   next_index |-> 1],
     device_q |-> <<>>,
     modifiers |-> <<>>,
     snapshots |-> <<>>,
     recent_changes |-> <<>>,
     last_modified_targets |-> {},
     blink_state |-> FALSE,
     last_sent_values |-> <<>>,
     poll     |-> [calls |-> 0, returned |-> <<>>, held |-> <<>>,
                   since |-> <<>>],
     op       |-> NewOp("init", "main", <<>>)]

\* A profile of Parameters only: the dial and the command button share
\* CC_1, the menu button is mapped twice to the button Parameter CC_2
ParameterProfile ==
    LET s1 == quick_parameter(Constructed, MainDial, FALSE)
        s2 == map_this(s1, "Init", CommandButton, "CC_1")
        s3 == quick_parameter(s2, MenuButton, TRUE)
    IN map_this(s3, "Init", MenuButton, "CC_2")

\* A profile of two views: in "Init" the dial is CC_1, the menu button
\* switches to V_1 and the command button flips the page; in V_1 the dial
\* is CC_2 and the menu button switches back
TwoViewProfile ==
    LET s1 == quick_parameter(Constructed, MainDial, FALSE)
        s2 == add_view(quick_view(s1, MenuButton, "", ""), "V_1")
        s3 == quick_view(s2, MenuButton, "Init", "V_1")
        s4 == map_this(add_target(new_target(s3, "Global Pageflip", PageFlip),
                                  "Global Pageflip"),
                       "Init", CommandButton, "Global Pageflip")
    IN map_this(add_target(ParameterMaker_make(s4, FALSE).s, "CC_2"),
                "V_1", MainDial, "CC_2")

\* A profile of one button Parameter ganged on two controls: the dial and
\* the command button both drive CC_1, which takes 127 for any position
GangedProfile ==
    map_this(quick_parameter(Constructed, MainDial, TRUE),
             "Init", CommandButton, "CC_1")

\* A profile with a fan-out: in "Init" the dial is CC_1; in the view V_1 of
\* the catalog the dial drives two Parameters, CC_1 and CC_2
FanOutProfile ==
    LET s1 == quick_parameter(Constructed, MainDial, FALSE)
        s2 == add_view(map_this(new_view(s1, "V_1"), "V_1", MainDial, "CC_1"),
                       "V_1")
    IN map_this(add_target(ParameterMaker_make(s2, FALSE).s, "CC_2"),
                "V_1", MainDial, "CC_2")

Profiles == {ParameterProfile, TwoViewProfile, GangedProfile}

(***************************************************************************)
(* The handlers as actions                                                 *)
(***************************************************************************)
State ==
    [controls |-> controls, page |-> page, view |-> view, views |-> views,
     vmap |-> vmap, vconf |-> vconf, targets |-> targets, tobj |-> tobj,
     maker |-> maker, device_q |-> device_q, modifiers |-> modifiers,
     snapshots |-> snapshots, recent_changes |-> recent_changes,
     last_modified_targets |-> last_modified_targets,
     blink_state |-> blink_state,
     last_sent_values |-> last_sent_values, poll |-> poll,
     op |-> op]

\* the state at the start of a handler running on thread thr
Begin(name, thr, arg) == [State EXCEPT !.op = NewOp(name, thr, arg)]

\* the state a handler leaves
Commit(s) ==
    /\ controls' = s.controls
    /\ page' = s.page
    /\ view' = s.view
    /\ views' = s.views
    /\ vmap' = s.vmap
    /\ vconf' = s.vconf
    /\ targets' = s.targets
    /\ tobj' = s.tobj
    /\ maker' = s.maker
    /\ device_q' = s.device_q
    /\ modifiers' = s.modifiers
    /\ snapshots' = s.snapshots
    /\ recent_changes' = s.recent_changes
    /\ last_modified_targets' = s.last_modified_targets
    /\ blink_state' = s.blink_state
    /\ last_sent_values' = s.last_sent_values
    /\ poll' = s.poll
    /\ op' = s.op

\* the controls of the surface a user can touch: the dial of page 1 is the
\* same knob as its twin of page 0
Physical == {MenuButton, MainDial, CommandButton}

\* what the hardware sends: a button 0 or 127, a dial any position
HardwareValues(ID) == IF ID \in Dials THEN DialValues ELSE {0, FULL}

\* Device.update on the worker of the input Shell: the message of one
\* control taken from the MIDI port and given to input_callback
HardwareInput ==
    /\ Len(device_q) < MaxPending
    /\ \E ID \in Physical :
         \E value \in HardwareValues(ID) :
            LET channel_byte == CONTROL_CHANGE + (ID2ccc(ID)[1] - 1)
                number == ID2ccc(ID)[2]
            IN Commit(input_callback(
                          Begin("input_callback", WorkerOf("input"), <<ID, value>>),
                          WorkerOf("input"), channel_byte, number, value))
    /\ UNCHANGED shellVars

\* OutputPort.received on the worker of the output Shell: the output
\* device reports a control change to its listeners
OutputReceived ==
    /\ Len(device_q) < MaxPending
    /\ \E number \in OutputNumbers :
         \E value \in OutputValues :
            Commit(received(Begin("received", WorkerOf("output"), <<1, number, value>>),
                            1, number, value))
    /\ UNCHANGED shellVars

\* Interface.main_loop on Interface.update_thread: one update
InterfaceUpdate ==
    /\ Commit(tick_all(update(Begin("update", "iface", <<>>), "iface",
                              MaxMessages)))
    /\ UNCHANGED shellVars

\* Interface.from_output called with sender = the output device
FromOutput ==
    /\ \E number \in OutputNumbers :
         \E value \in OutputValues :
            Commit(from_output(Begin("from_output", "iface", <<1, number, value>>),
                               "iface", "output", 1, number, value))
    /\ UNCHANGED shellVars

\* Interface.switch_to_view("name") from the command line or the GUI
SwitchToView ==
    /\ \E name \in {"Init", "V_1", "nowhere"} :
         Commit(switch_to_view(Begin("switch_to_view", "main", <<name>>),
                               "main", name, FALSE))
    /\ UNCHANGED shellVars

\* the variables of the Shell at its construction
ShellStart ==
    /\ q = <<>>
    /\ running = TRUE
    /\ pc = "loop"
    /\ max_calls = 0
    /\ results = <<>>
    /\ submitted = <<>>
    /\ executed = <<>>
    /\ lastStep = "init"
    /\ iterCalls = 0
    /\ iterTicks = 0
    /\ tickRaised = FALSE

RouterStart(s) ==
    /\ controls = s.controls
    /\ page = s.page
    /\ view = s.view
    /\ views = s.views
    /\ vmap = s.vmap
    /\ vconf = s.vconf
    /\ targets = s.targets
    /\ tobj = s.tobj
    /\ maker = s.maker
    /\ device_q = s.device_q
    /\ modifiers = s.modifiers
    /\ snapshots = s.snapshots
    /\ recent_changes = s.recent_changes
    /\ last_modified_targets = s.last_modified_targets
    /\ blink_state = s.blink_state
    /\ last_sent_values = s.last_sent_values
    /\ poll = s.poll
    /\ op = s.op

\* Shell.__init__ with auto_start: the queue is empty, the thread started
ShellInit == ShellStart /\ RouterStart(Constructed)

ShellNext == ShellCall \/ LoopHead \/ DrainCall \/ DrainEnd \/ Tick \/ YieldThread

ShellSpec == ShellInit /\ [][ShellNext]_vars

\* the worker is a daemon thread of its own: the scheduler runs it again
\* and again as long as it has a step to take
FairShellSpec == ShellSpec /\ WF_vars(Worker)

\* the Interface constructed and a profile loaded
Init == ShellStart /\ \E profile \in Profiles : RouterStart(profile)

Next == HardwareInput \/ OutputReceived \/ InterfaceUpdate \/ FromOutput
            \/ SwitchToView

Spec == Init /\ [][Next]_vars

\* the Interface constructed and the profile with the fan-out loaded
FanOutInit == ShellStart /\ RouterStart(FanOutProfile)

FanOutSpec == FanOutInit /\ [][Next]_vars

(***************************************************************************)
(* The address functions of devices.ports on their own: an address is      *)
(* drawn, ccc2ID encodes it and ID2ccc decodes the ID.                     *)
(***************************************************************************)
\* the pages of the addresses drawn: 0..MaxPage (the BCR2k has 0 and 1)
MaxPage == 2

\* MIDI channels and controller numbers
Channels == 1..16
Numbers == 0..127

\* the addresses an encoded address is compared with
Others == {<<1, 0>>, <<1, 127>>, <<2, 0>>, <<9, 5>>, <<16, 127>>}

\* a channel, a number and a page are given, and a second address
AddressInit ==
    /\ ShellStart
    /\ \E channel \in Channels : \E number \in Numbers :
         \E pg \in 0..MaxPage : \E other \in Others :
            RouterStart([Constructed EXCEPT !.op =
                [name |-> "address", thread |-> "main",
                 arg |-> <<channel, number, pg>>, other |-> other]])

\* ID = ccc2ID(channel, number, page); ID2ccc(ID, page), and the ID of the
\* second address on the same page
Convert ==
    /\ op.name = "address"
    /\ op' = [name |-> "ccc2ID", thread |-> "main", arg |-> op.arg,
              other |-> op.other,
              ID |-> ccc2ID(op.arg[1], op.arg[2], op.arg[3]),
              ccc |-> ID2ccc_device(ccc2ID(op.arg[1], op.arg[2], op.arg[3]),
                                    op.arg[3]),
              otherID |-> ccc2ID(op.other[1], op.other[2], op.arg[3])]
    /\ UNCHANGED <<controls, page, view, views, vmap, vconf, targets, tobj,
                   maker, device_q, modifiers, snapshots, recent_changes,
                   last_modified_targets, blink_state, last_sent_values, poll>>
    /\ UNCHANGED shellVars

AddressSpec == AddressInit /\ [][Convert]_vars

(***************************************************************************)
(* One Control on its own: set_value is called on it again and again with  *)
(* any integer.  The history keeps the last calls: the value given, the    *)
(* state of the control after the call and whether it was at rest before.  *)
(***************************************************************************)
\* the number of calls the history keeps
Window == 4

\* the integers given to set_value: below the range, its ends, above it
SetValues == {-1, 0, FULL, FULL + 1}

\* a control at rest: off, and no ignore countdown running
at_rest(c) == ~c.state /\ c.ignore = 0

\* the last Window entries of the history with one more
remember(calls, entry) ==
    IF Len(calls) < Window THEN Append(calls, entry)
    ELSE Append(Tail(calls), entry)

\* the record of a set_value call with the history of the calls so far
with_history(o, ID, calls) ==
    [f \in DOMAIN o \cup {"ID", "calls"} |->
        IF f = "ID" THEN ID ELSE IF f = "calls" THEN calls ELSE o[f]]

\* the device is constructed (BCR2k.setup_controls: the menu button toggles,
\* the command button is momentary) and one of its controls is picked
ControlInit ==
    /\ ShellStart
    /\ \E ID \in ControlIDs :
          RouterStart([Constructed EXCEPT !.op =
              with_history(NewOp("control", WorkerOf("input"), <<>>), ID, <<>>)])

\* the state after control.set_value(value) on the control picked
SetValueOn(s, ID, value, calls, rest_before) ==
    [s EXCEPT !.op = with_history(@, ID,
        remember(calls, [value |-> value, state |-> s.controls[ID].state,
                         rest_before |-> rest_before]))]

\* control.set_value(value)
SetValue ==
    /\ op.name \in {"control", "set_value"}
    /\ \E value \in SetValues :
          Commit(SetValueOn(
                    plain_set_value(Begin("set_value", WorkerOf("input"), <<value>>),
                                    WorkerOf("input"), op.ID, value).s,
                    op.ID, value, op.calls, at_rest(controls[op.ID])))
    /\ UNCHANGED shellVars

ControlSpec == ControlInit /\ [][SetValue]_vars

(***************************************************************************)
(* The input Device on its own: messages of any address arrive from the    *)
(* hardware, set_control is called with any ID, the page is flipped and    *)
(* the Interface takes the events reported.                                *)
(***************************************************************************)
\* an ID the BCR2k does not own: channel 1, number 1
UnownedID == ccc2ID(1, 1, 0)

\* the status bytes and controller numbers of the messages: the channel of
\* the BCR2k and channel 1, the number of the main dial and number 1
StatusBytes == {CONTROL_CHANGE + (ChannelOffset - 1), CONTROL_CHANGE}
MessageNumbers == {ID2ccc(MainDial)[2], 1}

\* the record of a call with the value it returned
with_ret(s, ret) ==
    [s EXCEPT !.op = [f \in DOMAIN @ \cup {"ret"} |->
                         IF f = "ret" THEN ret ELSE @[f]]]

\* Device.update: a message [channel_byte, cc, value] given to
\* input_callback, which returns nothing
DeviceInput ==
    /\ Len(device_q) < MaxPending
    /\ \E channel_byte \in StatusBytes : \E number \in MessageNumbers :
         \E value \in {0, FULL} :
            Commit(with_ret(
                input_callback(Begin("input_callback", WorkerOf("input"),
                                     <<channel_byte, number, value>>),
                               WorkerOf("input"), channel_byte, number, value),
                None))
    /\ UNCHANGED shellVars

\* the result of a set_control call as the state with the value returned
returned(r) == with_ret(r.s, r.ret)

\* Device.set_control(ID, value, from_input, inform_listeners) executed by
\* the worker of the Device, with the defaults (from_input=False,
\* inform_listeners=False) or as input_callback calls it (both True)
SetControl ==
    /\ Len(device_q) < MaxPending
    /\ \E ID \in {MainDial, CommandButton, UnownedID} : \E value \in {0, FULL} :
         \E informed \in BOOLEAN :
            Commit(returned(
                set_control(Begin("set_control", WorkerOf("input"), <<ID, value>>),
                            WorkerOf("input"), ID, value, informed, informed,
                            FALSE)))
    /\ UNCHANGED shellVars

\* device.page = p, executed by the worker of the Device
SetPage ==
    /\ \E p \in BOOLEAN :
          Commit(set_page(Begin("page", WorkerOf("input"), <<p>>),
                          WorkerOf("input"), p))
    /\ UNCHANGED shellVars

DeviceInit == ShellStart /\ RouterStart(Constructed)

DeviceNext == DeviceInput \/ SetControl \/ SetPage \/ InterfaceUpdate

DeviceSpec == DeviceInit /\ [][DeviceNext]_vars

(***************************************************************************)
(* modifiers.modifier.Modifier as the profile sees it: name, class,        *)
(* amplitude and the table of powers.  A power p/64 (ModPower sets         *)
(* (value - 64) / 64) is kept as the integer p; the table is keyed by the  *)
(* name of the target.                                                     *)
(***************************************************************************)
\* modifiers.MODIFIERS: the classes get_modifier finds
ModifierTypes == {"Basic"}

\* targets.TARGETS: the classes get_target finds, of those in the model
TargetTypes == {"Parameter", "SwitchView", "PageFlip", "FlexSetter",
                "FlexParameter", "SnapshotButton", "SnapshotSelector"}

\* Modifier.serialize: "targets": {t.name: power}
Modifier_serialize(mod) ==
    [name |-> mod.name, type |-> mod.type, amplitude |-> mod.amplitude,
     targets |-> mod.targets]

\* M.blank() and Modifier.from_dict(m, all_targets): a name that is not in
\* all_targets is printed and skipped; Modifier.target keeps no power 0.0
Modifier_from_dict(m, all_targets) ==
    [name |-> m.name, type |-> m.type, amplitude |-> m.amplitude, value |-> 0,
     targets |-> [n \in {t \in DOMAIN m.targets :
                            t \in all_targets /\ m.targets[t] # 0}
                    |-> m.targets[n]]]

\* Interface.add_modifier: self.modifiers.add(modifier); a Modifier has no
\* __eq__, so a new object is always a further element
add_modifier(s, mod) == [s EXCEPT !.modifiers = Append(@, mod)]

(***************************************************************************)
(* Interface.make_profile and Interface.load_profile                       *)
(***************************************************************************)
\* Target.serialize(ID) with the items the subclasses add
serialize(s, ID, t) ==
    [name |-> name_of(t), type |-> s.tobj[t].type, ID |-> ID,
     channel |-> s.tobj[t].channel, cc |-> s.tobj[t].cc,
     value |-> target_value(s.tobj[t]), is_button |-> s.tobj[t].is_button,
     view |-> s.tobj[t].view_name]

\* the Target a FlexSetter or a SnapshotButton names in its entry:
\* d["flex"], d["selector"]
named_in(d) == IF d.type = "FlexSetter" THEN d.flex ELSE d.selector

\* FlexSetter.from_dict and SnapshotButton.from_dict with a name that
\* self.parent.targets does not hold: the handler of the KeyError calls
\* eprint, a name that flex.py and snap.py do not import
from_dict_raises(s, d) ==
    d.type \in {"FlexSetter", "SnapshotButton"} /\ ~name_taken(s, named_in(d))

\* T.blank(self) and target.from_dict(t)
from_dict(s, d) ==
    IF d.type = "Parameter"
      THEN [Parameter(d.channel, d.cc, d.is_button) EXCEPT !.value = d.value]
    ELSE IF d.type = "SwitchView" THEN SwitchView(d.view)
    ELSE IF d.type = "FlexSetter" THEN FlexSetter(registered(s, d.flex), "")
    ELSE IF d.type = "FlexParameter" THEN FlexParameter
    ELSE IF d.type = "SnapshotButton"
      THEN SnapshotButton(registered(s, d.selector), "")
    ELSE IF d.type = "SnapshotSelector" THEN SnapshotSelector
    ELSE PageFlip

\* the "map" of a view in the profile
serialize_map(s, items) ==
    [k \in 1..Len(items) |-> serialize(s, items[k][1], items[k][2])]

\* Interface.make_profile of an Interface with an active view
make_profile(s) ==
    [next_cc |-> s.maker.next_cc,
     next_view_index |-> s.maker.next_index,
     active_view |-> s.view,
     views |-> [k \in 1..Len(s.views) |->
                  [name |-> s.views[k],
                   configuration |-> s.vconf[s.views[k]],
                   map |-> serialize_map(s, map_items(s.vmap[s.views[k]], 1))]],
     modifiers |-> [k \in 1..Len(s.modifiers) |->
                      Modifier_serialize(s.modifiers[k])]]

\* util.keys_to_ints: {int(k): v for k, v in d.items()}
keys_to_ints(d) == [k \in DOMAIN d |-> d[k]]

\* load_profile, "Create modifiers": the modifiers of the profile are
\* added to self.modifiers, resolved against self.targets as it is now
RECURSIVE load_modifiers(_, _, _)
load_modifiers(s, ms, i) ==
    IF i > Len(ms) THEN s
    ELSE IF ms[i].type \notin ModifierTypes THEN load_modifiers(s, ms, i + 1)
    ELSE load_modifiers(add_modifier(s, Modifier_from_dict(ms[i], target_names(s))),
                        ms, i + 1)

\* load_profile, the targets of one view: a registered name is taken from
\* self.targets, any other is made blank, filled and registered
RECURSIVE load_map(_, _, _, _)
load_map(s, v, ts, j) ==
    IF j > Len(ts) \/ Failed(s) THEN s
    ELSE IF name_taken(s, ts[j].name)
      THEN load_map(map_this(s, v, ts[j].ID, registered(s, ts[j].name)),
                    v, ts, j + 1)
    ELSE IF ts[j].type \notin TargetTypes THEN load_map(s, v, ts, j + 1)
    ELSE IF from_dict_raises(s, ts[j]) THEN Raise(s, "NameError")
    ELSE load_map(
            map_this(add_target(new_target(s, ts[j].name, from_dict(s, ts[j])),
                                ts[j].name),
                     v, ts[j].ID, ts[j].name),
            v, ts, j + 1)

\* view = View(self.input, v["name"]); view.configuration = ...;
\* self.views.append(view)
load_view(s, v) ==
    [new_view(s, v.name) EXCEPT !.vconf[v.name] = keys_to_ints(v.configuration),
                                !.views = Append(@, v.name)]

\* load_profile, "Create views and their targets"
RECURSIVE load_views(_, _, _)
load_views(s, vs, i) ==
    IF i > Len(vs) \/ Failed(s) THEN s
    ELSE load_views(load_map(load_view(s, vs[i]), vs[i].name, vs[i].map, 1),
                    vs, i + 1)

\* load_profile, "activate active view"
load_active_view(s, thr, name) ==
    IF Failed(s) THEN s ELSE switch_to_view(s, thr, name, FALSE)

\* Interface.load_profile(p), executed on thread thr
load_profile(s, thr, p) ==
    load_active_view(
        load_views(
            [load_modifiers([s EXCEPT !.maker.next_cc = p.next_cc,
                                      !.maker.next_index = p.next_view_index],
                            p.modifiers, 1)
               EXCEPT !.views = <<>>, !.view = NoView],
            p.views, 1),
        thr, p.active_view)

(***************************************************************************)
(* An Interface with a Modifier, whose views are switched, also to a       *)
(* temporary one, and whose profile is made and loaded again.              *)
(***************************************************************************)
\* the copies of a Modifier up to which the profile is loaded again
MaxModifiers == 2

\* a Modifier "LFO" with power 32/64 on CC_1 was added
with_modifier(s) ==
    add_modifier(s, [name |-> "LFO", type |-> "Basic", amplitude |-> FULL,
                     value |-> 0,
                     targets |-> [n \in {"CC_1"} |-> 32]])

\* the name of the temporary view of a ModView: "%s_ModView" % modifier
TempView == "Basic_ModView"

ProfileInit ==
    ShellStart /\ \E profile \in Profiles : RouterStart(with_modifier(profile))

\* switch_to_view(View(self.input, name), temp=True), as
\* ModView.enter_power_view calls it
SwitchToTempView ==
    /\ Commit(switch_to_view_object(
                 new_view(Begin("switch_to_view", "main", <<TempView, TRUE>>),
                          TempView),
                 "main", TempView, TRUE))
    /\ UNCHANGED shellVars

\* make_profile on an Interface whose view is None: self.view.name raises
make_and_load(s, into, thr) ==
    IF s.view = NoView THEN Raise(s, "AttributeError")
    ELSE load_profile(into, thr, make_profile(s))

\* interface.load_profile(interface.make_profile())
LoadOwnProfile ==
    /\ Len(modifiers) <= MaxModifiers
    /\ Commit(make_and_load(Begin("load_profile", "main", <<"own">>),
                            Begin("load_profile", "main", <<"own">>), "main"))
    /\ UNCHANGED shellVars

\* Interface(devin, devout).load_profile(interface.make_profile()): the
\* profile loaded by an Interface just constructed on devices just made
LoadProfileFresh ==
    /\ Commit(make_and_load(Begin("load_profile", "main", <<"fresh">>),
                            [Constructed EXCEPT
                                !.op = NewOp("load_profile", "main", <<"fresh">>)],
                            "main"))
    /\ UNCHANGED shellVars

ProfileNext ==
    SwitchToView \/ SwitchToTempView \/ LoadOwnProfile \/ LoadProfileFresh

ProfileSpec == ProfileInit /\ [][ProfileNext]_vars

(***************************************************************************)
(* The registry of Targets: an Interface just constructed, on which        *)
(* add_target, quick_parameter, quick_view, add_view and switch_to_view    *)
(* are called from the command line.                                       *)
(***************************************************************************)
\* the Targets each maker makes at most
MaxMade == 2

\* self.add_target(target) with a Target just constructed
add_new_target(s, t, obj) == add_target(new_target(s, t, obj), t)

\* interface.add_target(Parameter(name, interface, 1, 1))
AddTarget ==
    /\ \E name \in {"CC_1"} :
         /\ second(name) \notin DOMAIN tobj
         /\ Commit(add_new_target(Begin("add_target", "main", <<name>>),
                                  new_object(State, name),
                                  Parameter(1, 1, FALSE)))
    /\ UNCHANGED shellVars

\* interface.quick_parameter(ID)
QuickParameter ==
    /\ maker.next_cc <= MaxMade
    /\ second(format_name("CC", maker.next_cc)) \notin DOMAIN tobj
    /\ \E ID \in {MainDial, CommandButton} :
         Commit(quick_parameter(Begin("quick_parameter", "main", <<ID>>),
                                ID, FALSE))
    /\ UNCHANGED shellVars

\* interface.quick_view(ID), quick_view(ID, to_view=init_view) and
\* quick_view(ID, on_view=interface.view)
QuickView ==
    /\ maker.next_index <= MaxMade
    /\ \E to_view \in {"", "Init"}, on_view \in {"", view} :
         Commit(quick_view(Begin("quick_view", "main",
                                 <<MenuButton, to_view, on_view>>),
                           MenuButton, to_view, on_view))
    /\ UNCHANGED shellVars

\* interface.add_view(view) with a View made before
AddView ==
    /\ \E v \in DOMAIN vmap :
         Commit(add_view(Begin("add_view", "main", <<v>>), v))
    /\ UNCHANGED shellVars

\* interface.switch_to_view(view) with a View made before
SwitchToViewObject ==
    /\ \E v \in DOMAIN vmap :
         Commit(switch_to_view_object(Begin("switch_to_view", "main", <<v>>),
                                      "main", v, FALSE))
    /\ UNCHANGED shellVars

RegistryInit == ShellStart /\ RouterStart(Constructed)

RegistryNext ==
    AddTarget \/ QuickParameter \/ QuickView \/ AddView \/ SwitchToViewObject

RegistrySpec == RegistryInit /\ [][RegistryNext]_vars

(***************************************************************************)
(* modifiers.modifier.Modifier and targets.target.ValueTarget: the powers, *)
(* the ticks and the offsets.  The value a Modifier calculates is a whole  *)
(* number here (-1, 0 or 1, the ends and the middle of a wave).            *)
(***************************************************************************)
\* ValueTarget.remove_modifier
remove_modifier(s, t, k) ==
    [s EXCEPT !.tobj[t].modifiers = without_key(@, k)]

\* Modifier.remove_target: a target that is no ValueTarget has no
\* remove_modifier, the AttributeError is printed
remove_target(s, k, t) ==
    IF has_value(s.tobj[t])
      THEN remove_modifier(Modifier_target(s, k, t, 0), t, k)
      ELSE Modifier_target(s, k, t, 0)

\* Modifier.modvalue
modvalue(mod) == mod.value * mod.amplitude

\* ValueTarget.modify(modifier, value): the offset is stored and the target
\* triggered with the Modifier as the sender; a target that is no
\* ValueTarget has no modify, the AttributeError is printed
modify(s, thr, t, k, value) ==
    IF has_value(s.tobj[t])
      THEN trigger([s EXCEPT !.tobj[t].modifiers = with_key(@, k, value)],
                   thr, t, "modifier", None).s
      ELSE s

\* Modifier.tick, the loop over self.targets.items() (in an order of the
\* model's choice)
RECURSIVE tick_targets(_, _, _, _)
RECURSIVE tick_target(_, _, _, _, _)
tick_target(s, thr, k, todo, t) ==
    tick_targets(modify(s, thr, t, k,
                        modvalue(s.modifiers[k]) * s.modifiers[k].targets[t]),
                 thr, k, todo \ {t})
tick_targets(s, thr, k, todo) ==
    IF todo = {} \/ Failed(s) THEN s
    ELSE tick_target(s, thr, k, todo, CHOOSE t \in todo : TRUE)

\* Modifier.tick(time_report) of the Modifier at place k, whose calculate
\* returns value
tick(s, thr, k, value) ==
    tick_targets([s EXCEPT !.modifiers[k].value = value], thr, k,
                 DOMAIN s.modifiers[k].targets)

\* the powers given: -0.5, 0.0, 0.5
Powers == {-(Unit \div 2), 0, Unit \div 2}

\* the values calculate returns
Waves == {-1, 0, 1}

\* the center values of the Parameter at the start
Centers == {0, 64}

\* an Interface whose dial is the Parameter CC_1, with two Modifiers that
\* target nothing yet
TwoModifiers(center) ==
    [quick_parameter(Constructed, MainDial, FALSE)
       EXCEPT !.tobj["CC_1"].value = center,
              !.modifiers = <<[name |-> "LFO1", type |-> "Basic",
                               amplitude |-> FULL, value |-> 0, targets |-> <<>>],
                              [name |-> "LFO2", type |-> "Basic",
                               amplitude |-> FULL, value |-> 0, targets |-> <<>>]>>]

ModifierInit == ShellStart /\ \E center \in Centers : RouterStart(TwoModifiers(center))

\* mod.target(t, power)
ModTarget ==
    /\ \E k \in 1..Len(modifiers), t \in targets, power \in Powers :
         Commit(Modifier_target(Begin("target", "main", <<k, t, power>>),
                                k, t, power))
    /\ UNCHANGED shellVars

\* mod.remove_target(t)
ModRemoveTarget ==
    /\ \E k \in 1..Len(modifiers), t \in targets :
         Commit(remove_target(Begin("remove_target", "main", <<k, t>>), k, t))
    /\ UNCHANGED shellVars

\* mod.tick(time_report)
ModTick ==
    /\ \E k \in 1..Len(modifiers), value \in Waves :
         Commit(tick(Begin("tick", "main", <<k, value>>), "main", k, value))
    /\ UNCHANGED shellVars

ModifierNext == ModTarget \/ ModRemoveTarget \/ ModTick

ModifierSpec == ModifierInit /\ [][ModifierNext]_vars

(***************************************************************************)
(* Interface.save_snapshot and Interface.load_snapshot                     *)
(***************************************************************************)
\* the slots used
Slots == {1, 2}

\* an Interface whose dial is the Parameter CC_1 with the center value 64,
\* which its one Modifier LFO1 modifies with the power 0.5
Modified_by_one ==
    Modifier_target([TwoModifiers(64) EXCEPT !.modifiers = SubSeq(@, 1, 1)],
                    1, "CC_1", Unit \div 2)

SnapshotInit == ShellStart /\ RouterStart(Modified_by_one)

\* interface.save_snapshot(1)
SaveSnapshot ==
    /\ Commit(save_snapshot(Begin("save_snapshot", "main", <<1>>), 1))
    /\ UNCHANGED shellVars

\* interface.load_snapshot(slot)
LoadSnapshot ==
    /\ \E slot \in Slots :
         Commit(load_snapshot(Begin("load_snapshot", "main", <<slot>>), "main", slot))
    /\ UNCHANGED shellVars

\* Interface.from_input(input, ID, value) for the dial turned to an end
FromInput ==
    /\ \E value \in {0, FULL} :
         Commit(from_input(Begin("from_input", "iface", <<MainDial, value>>),
                           "iface", "input", MainDial, value))
    /\ UNCHANGED shellVars

SnapshotNext == SaveSnapshot \/ LoadSnapshot \/ ModTick \/ FromInput

SnapshotSpec == SnapshotInit /\ [][SnapshotNext]_vars

(***************************************************************************)
(* Profiles with a FlexSetter and its FlexParameter, or a SnapshotButton   *)
(* and its SnapshotSelector, in either order, loaded by an Interface just  *)
(* constructed and then played on.                                         *)
(***************************************************************************)
\* an entry of the "map" of a view, as Target.serialize writes it
Entry(name, type, ID) ==
    [name |-> name, type |-> type, ID |-> ID, channel |-> 1, cc |-> 1,
     value |-> 0, is_button |-> FALSE, view |-> ""]

\* FlexSetter.serialize: s["flex"] = self.flex.name
SetterEntry == [name |-> "Set", type |-> "FlexSetter", ID |-> CommandButton,
                flex |-> "Flex"]

\* SnapshotButton.serialize: s["selector"] = self.selector.name
ButtonEntry == [name |-> "Snap", type |-> "SnapshotButton", ID |-> CommandButton,
                selector |-> "Sel"]

\* a profile of the one view "Init" with the Parameter CC_1 on the menu
\* button and the two entries given after it
PairProfile(first, then) ==
    [next_cc |-> 2, next_view_index |-> 1, active_view |-> "Init",
     views |-> <<[name |-> "Init", configuration |-> NewViewConf,
                  map |-> <<Entry("CC_1", "Parameter", MenuButton), first, then>>]>>,
     modifiers |-> <<>>]

\* the setter before its target, and after it
DeferredProfiles ==
    <<PairProfile(SetterEntry, Entry("Flex", "FlexParameter", MainDial)),
      PairProfile(Entry("Flex", "FlexParameter", MainDial), SetterEntry),
      PairProfile(ButtonEntry, Entry("Sel", "SnapshotSelector", MainDial)),
      PairProfile(Entry("Sel", "SnapshotSelector", MainDial), ButtonEntry)>>

DeferredInit == ShellStart /\ RouterStart(Constructed)

\* load_profile(interface, filename) at the start of the program
LoadDeferredProfile ==
    /\ view = "Init" /\ targets = {}
    /\ \E k \in DOMAIN DeferredProfiles :
         Commit(load_profile(Begin("load_profile", "main", <<k>>), "main",
                             DeferredProfiles[k]))
    /\ UNCHANGED shellVars

\* Interface.from_input(input, ID, value) for a control at either end
DeferredInput ==
    /\ \E ID \in Physical, value \in {0, FULL} :
         Commit(from_input(Begin("from_input", "iface", <<ID, value>>),
                           "iface", "input", ID, value))
    /\ UNCHANGED shellVars

\* a second passes while a SnapshotButton that was pressed waits
Hold ==
    /\ \E t \in targets : tobj[t].type = "SnapshotButton" /\ tobj[t].held = 0
    /\ tobj' = [t \in DOMAIN tobj |->
                  IF tobj[t].type = "SnapshotButton" /\ tobj[t].held = 0
                    THEN [tobj[t] EXCEPT !.held = LONGPRESS_THRESHOLD]
                    ELSE tobj[t]]
    /\ UNCHANGED <<controls, page, view, views, vmap, vconf, targets, maker,
                   device_q, modifiers, snapshots, recent_changes,
                   last_modified_targets, blink_state, last_sent_values, poll, op>>
    /\ UNCHANGED shellVars

DeferredNext == LoadDeferredProfile \/ DeferredInput \/ Hold

DeferredSpec == DeferredInit /\ [][DeferredNext]_vars

(***************************************************************************)
(* Interface.get_recent_changes called by another thread while the update  *)
(* thread sets controls.  The statement                                    *)
(*     self.recent_changes["controls"][ID] = set_value                     *)
(* first evaluates self.recent_changes["controls"] and then stores into    *)
(* the dict it found; the interpreter may run another thread in between.   *)
(* The dict held is the current one (0) or one that was returned (1).      *)
(***************************************************************************)
\* the calls of get_recent_changes up to which the model goes
MaxPolls == 2

\* Interface.reset_recent_changes: self.recent_changes = a new dict
reset_recent_changes(s) == [s EXCEPT !.recent_changes = <<>>]

\* the dict a thread holds, once the current dict has been returned
handed_over(held) == [j \in DOMAIN held |-> [held[j] EXCEPT !.dict = 1]]

\* Interface.get_recent_changes: copy = self.recent_changes;
\* self.reset_recent_changes(); return copy.  The dict returned is the
\* one that was current, not a copy of it; poll.returned is what the
\* caller finds in it at the return
get_recent_changes(s) ==
    [reset_recent_changes(s) EXCEPT
        !.poll.calls = @ + 1,
        !.poll.returned = s.recent_changes,
        !.poll.held = handed_over(@),
        !.poll.since = <<>>]

\* _set_control after set_control(...).get() returned r.ret, up to the
\* evaluation of self.recent_changes["controls"]
hold_set_value(r, ID) ==
    IF Failed(r.s) \/ r.ret = None THEN r.s
    ELSE [r.s EXCEPT !.poll.held = <<[dict |-> 0, ID |-> ID, value |-> r.ret]>>]

_set_control_held(s, thr, ID, value, force) ==
    hold_set_value(
       set_control([s EXCEPT !.op.gets = @ \cup {[thread |-> thr, shell |-> "input"]}],
                   WorkerOf("input"), ID, value, FALSE, FALSE, force),
       ID)

\* the store into the dict held: the value is recorded
store_held(s, h) ==
    IF h.dict = 0
      THEN [s EXCEPT !.recent_changes = with_key(@, h.ID, h.value),
                     !.poll.held = <<>>,
                     !.poll.since = with_key(@, h.ID, h.value)]
      ELSE [s EXCEPT !.poll.held = <<>>,
                     !.poll.since = with_key(@, h.ID, h.value)]

DrainInit == ShellStart /\ RouterStart(Constructed)

\* the update thread: self._set_control(ID, value), as
\* reflect_target_on_input calls it, up to the store
SetControlHeld ==
    /\ poll.held = <<>>
    /\ \E ID \in {MainDial, CommandButton}, value \in {0, FULL} :
         Commit(_set_control_held(Begin("_set_control", "iface", <<ID, value>>),
                                  "iface", ID, value, FALSE))
    /\ UNCHANGED shellVars

\* the update thread: the store that ends _set_control
SetControlStore ==
    /\ poll.held # <<>>
    /\ Commit(store_held(State, poll.held[1]))
    /\ UNCHANGED shellVars

\* the thread of the GUI or of the command line:
\* interface.get_recent_changes()
GetRecentChanges ==
    /\ poll.calls < MaxPolls
    /\ Commit(get_recent_changes(Begin("get_recent_changes", "main", <<>>)))
    /\ UNCHANGED shellVars

DrainNext == SetControlHeld \/ SetControlStore \/ GetRecentChanges

DrainSpec == DrainInit /\ [][DrainNext]_vars

(***************************************************************************)
(* Device.update: the messages of the MIDI port, then the blinking         *)
(* routine.  Whether BLINK_INTERVAL has passed since last_blink is an      *)
(* input of the call.                                                      *)
(***************************************************************************)
\* self.controls.values(), in the order setup_controls made the controls
SetupOrder == <<MenuButton, MainDial, MainDial2, CommandButton>>

\* self.blink_state * control.maxval: True is 1, False is 0
phase_value(phase, maxval) == IF phase THEN maxval ELSE 0

\* a blink that sets the control like any other value
blink_control_set(s, thr, ID) ==
    set_control(s, thr, ID, phase_value(s.blink_state, s.controls[ID].maxval),
                FALSE, TRUE, FALSE).s

\* the blinking routine for one control:
\* self.cc(control.ID, self.blink_state * control.maxval)
blink_control(s, thr, ID) ==
    cc(s, ID, phase_value(s.blink_state, s.controls[ID].maxval), FALSE)

\* for control in filter(lambda c: c.blink, self.controls.values())
RECURSIVE blink_from(_, _, _)
blink_from(s, thr, i) ==
    IF i > Len(SetupOrder) THEN s
    ELSE blink_from(IF s.controls[SetupOrder[i]].blink
                      THEN blink_control(s, thr, SetupOrder[i]) ELSE s,
                    thr, i + 1)

\* the blinking routine: self.blink_state = not self.blink_state, then
\* the controls that blink
blink(s, thr) ==
    blink_from(LogWrites([s EXCEPT !.blink_state = ~@], thr, {"blink_state"}),
               thr, 1)

\* the loop over self.input.get_message(): input_callback for each
RECURSIVE handle_messages(_, _, _, _)
handle_messages(s, thr, msgs, i) ==
    IF i > Len(msgs) THEN s
    ELSE handle_messages(input_callback(s, thr, msgs[i][1], msgs[i][2], msgs[i][3]),
                         thr, msgs, i + 1)

\* Device.update
Device_update(s, thr, msgs, elapsed) ==
    IF elapsed THEN blink(handle_messages(s, thr, msgs, 1), thr)
    ELSE handle_messages(s, thr, msgs, 1)

\* the messages the port holds at an update: none, or one of a button or
\* of the dial
PortMessages ==
    {<<>>} \cup {<<<<CONTROL_CHANGE + (ID2ccc(ID)[1] - 1), ID2ccc(ID)[2], value>>>> :
                    ID \in {MenuButton, MainDial}, value \in {0, FULL}}

\* the controls configured as switch_to_view configures them, with
\* "blink": True in the configuration of the controls B
Blinking(B) ==
    [Constructed EXCEPT !.controls = [ID \in DOMAIN @ |->
        configure(@[ID], [default_conf EXCEPT !.blink = (ID \in B)])]]

BlinkInit ==
    /\ ShellStart
    /\ \E B \in {{MenuButton}, {MainDial, MainDial2, CommandButton}} :
          RouterStart(Blinking(B))

\* Device.update on the worker of the input Shell
DeviceUpdate ==
    /\ Len(device_q) < MaxPending
    /\ \E msgs \in PortMessages, elapsed \in BOOLEAN :
         Commit(Device_update(Begin("device_update", WorkerOf("input"),
                                    <<msgs, elapsed>>),
                              WorkerOf("input"), msgs, elapsed))
    /\ UNCHANGED shellVars

BlinkNext == DeviceUpdate \/ SetPage \/ InterfaceUpdate

BlinkSpec == BlinkInit /\ [][BlinkNext]_vars

(***************************************************************************)
(* Device.set_control with its two flags chosen freely.                    *)
(***************************************************************************)
\* the values asked for: the two ends of the range and one beyond it
PolicyValues == {0, FULL, FULL + 1}

\* Device.set_control(ID, value, from_input, inform_listeners) executed by
\* the worker of the Device
SetControlFlags ==
    /\ Len(device_q) < MaxPending
    /\ \E ID \in {MenuButton, MainDial, MainDial2, CommandButton} :
         \E value \in PolicyValues : \E from_inp, inform_listeners \in BOOLEAN :
            Commit(returned(
                set_control(Begin("set_control", WorkerOf("input"),
                                  <<ID, value, from_inp, inform_listeners>>),
                            WorkerOf("input"), ID, value, from_inp,
                            inform_listeners, FALSE)))
    /\ UNCHANGED shellVars

PolicyInit == ShellStart /\ RouterStart(Constructed)

PolicyNext == SetControlFlags \/ InterfaceUpdate

PolicySpec == PolicyInit /\ [][PolicyNext]_vars

(***************************************************************************)
(* The Buttons of the device on their own: set_value, on, off and          *)
(* configure on the toggle menu button and the momentary command button.   *)
(***************************************************************************)
\* a bool given where a value is expected: True is 1, False is 0
as_int(b) == IF b THEN 1 ELSE 0

\* Button.on
on(s, thr, ID) ==
    LET c == s.controls[ID] IN
    control_changed(
        send_to_device(
            LogWrites([s EXCEPT !.controls[ID].value = c.maxval,
                                !.controls[ID].state = TRUE,
                                !.controls[ID].ignore = IF c.toggle THEN 1 ELSE @],
                      thr, {"value", "state", "ignore"}),
            ID, c.maxval),
        thr, ID, as_int(TRUE))

\* Button.off
off(s, thr, ID) ==
    LET c == s.controls[ID] IN
    control_changed(
        send_to_device(
            LogWrites([s EXCEPT !.controls[ID].value = c.minval,
                                !.controls[ID].state = FALSE,
                                !.controls[ID].ignore = 0],
                      thr, {"value", "state", "ignore"}),
            ID, c.minval),
        thr, ID, as_int(FALSE))

\* control.configure(conf) on one control of the device
configure_control(s, thr, ID, conf) ==
    LogWrites([s EXCEPT !.controls[ID] = configure(@, conf)], thr, {"conf"})

ButtonIDs == {MenuButton, CommandButton}

\* the values given to a Button: the two ends and one between them
ButtonValues == {0, 64, FULL}

\* the configurations given: the defaults, in toggle or in momentary mode
ButtonConfs == {[default_conf EXCEPT !.toggle = t] : t \in BOOLEAN}

\* button.set_value(value)
ButtonSetValue ==
    /\ \E ID \in ButtonIDs : \E value \in ButtonValues :
          Commit(returned(plain_set_value(
                    Begin("set_value", WorkerOf("input"), <<ID, value>>),
                    WorkerOf("input"), ID, value)))
    /\ UNCHANGED shellVars

\* button.on()
ButtonOn ==
    /\ Len(device_q) < MaxPending
    /\ \E ID \in ButtonIDs :
          Commit(on(Begin("on", WorkerOf("input"), <<ID>>), WorkerOf("input"), ID))
    /\ UNCHANGED shellVars

\* button.off()
ButtonOff ==
    /\ Len(device_q) < MaxPending
    /\ \E ID \in ButtonIDs :
          Commit(off(Begin("off", WorkerOf("input"), <<ID>>), WorkerOf("input"), ID))
    /\ UNCHANGED shellVars

\* button.configure(conf)
ButtonConfigure ==
    /\ \E ID \in ButtonIDs : \E conf \in ButtonConfs :
          Commit(configure_control(
                    Begin("configure", WorkerOf("input"), <<ID, conf>>),
                    WorkerOf("input"), ID, conf))
    /\ UNCHANGED shellVars

ButtonInit == ShellStart /\ RouterStart(Constructed)

ButtonNext ==
    ButtonSetValue \/ ButtonOn \/ ButtonOff \/ ButtonConfigure \/ InterfaceUpdate

ButtonSpec == ButtonInit /\ [][ButtonNext]_vars

(***************************************************************************)
(* The pages of the device: set_control without listeners, from the        *)
(* hardware or not, and the page set to either value.                      *)
(***************************************************************************)
\* Device.set_control(ID, value, from_input) with inform_listeners=False
SetControlQuiet ==
    /\ \E ID \in ControlIDs : \E value \in PolicyValues : \E from_inp \in BOOLEAN :
          Commit(returned(
              set_control(Begin("set_control", WorkerOf("input"),
                                <<ID, value, from_inp, FALSE>>),
                          WorkerOf("input"), ID, value, from_inp, FALSE, FALSE)))
    /\ UNCHANGED shellVars

PageInit == ShellStart /\ RouterStart(Constructed)

PageNext == SetControlQuiet \/ SetPage

PageSpec == PageInit /\ [][PageNext]_vars

(***************************************************************************)
(* Modifier.clear_targets, with two Parameters to modify.                  *)
(***************************************************************************)
\* Modifier.clear_targets of the Modifier at place k: `for target in
\* self.targets: self.remove_target(target)` deletes from the dict the loop
\* iterates over, so the iterator raises RuntimeError when asked for the
\* next key; first is the key the iterator gave first.  An empty dict is
\* cleared without a loop.
clear_targets(s, k, first) ==
    IF DOMAIN s.modifiers[k].targets = {} THEN s
    ELSE Raise(remove_target(s, k, first), "RuntimeError")

\* an Interface with the Parameters CC_1 and CC_2 on the dials of the two
\* pages and one Modifier that targets nothing yet
TwoParameters ==
    [quick_parameter(TwoModifiers(64), MainDial2, FALSE)
       EXCEPT !.modifiers = SubSeq(@, 1, 1)]

ClearInit == ShellStart /\ RouterStart(TwoParameters)

\* mod.clear_targets()
ModClearTargets ==
    /\ \E k \in 1..Len(modifiers) :
         \/ /\ DOMAIN modifiers[k].targets = {}
            /\ Commit(clear_targets(Begin("clear_targets", "main", <<k>>), k, None))
         \/ \E first \in DOMAIN modifiers[k].targets :
               Commit(clear_targets(Begin("clear_targets", "main", <<k>>), k, first))
    /\ UNCHANGED shellVars

ClearNext == ModTarget \/ ModRemoveTarget \/ ModTick \/ ModClearTargets

ClearSpec == ClearInit /\ [][ClearNext]_vars

(***************************************************************************)
(* quick_view and the button it maps: views are made from the command      *)
(* line, registered or not, and the menu button is pressed and released.   *)
(***************************************************************************)
\* Interface.from_input(input, ID, value) for the menu button
MenuInput ==
    /\ \E value \in {0, FULL} :
         Commit(from_input(Begin("from_input", "iface", <<MenuButton, value>>),
                           "iface", "input", MenuButton, value))
    /\ UNCHANGED shellVars

QuickViewInit == ShellStart /\ RouterStart(Constructed)

QuickViewNext == QuickView \/ AddView \/ MenuInput

QuickViewSpec == QuickViewInit /\ [][QuickViewNext]_vars

(***************************************************************************)
(* A FlexParameter in play: a Parameter on the dial of page 2, the         *)
(* FlexParameter on the dial of page 1 and its FlexSetter on the command   *)
(* button, as a profile that names the FlexParameter first sets them up.   *)
(***************************************************************************)
FlexProfile ==
    [next_cc |-> 2, next_view_index |-> 1, active_view |-> "Init",
     views |-> <<[name |-> "Init", configuration |-> NewViewConf,
                  map |-> <<Entry("CC_1", "Parameter", MainDial2),
                            Entry("Flex", "FlexParameter", MainDial),
                            SetterEntry>>]>>,
     modifiers |-> <<>>]

FlexInit ==
    /\ ShellStart
    /\ RouterStart(load_profile(Constructed, "main", FlexProfile))

\* the positions the dials are turned to and the values of the button
FlexValues == {0, 64, FULL}

\* Interface.from_input(input, ID, value) for one of the three controls
FlexInput ==
    /\ \E ID \in {MainDial2, MainDial, CommandButton}, value \in FlexValues :
         Commit(from_input(Begin("from_input", "iface", <<ID, value>>),
                           "iface", "input", ID, value))
    /\ UNCHANGED shellVars

FlexSpec == FlexInit /\ [][FlexInput]_vars

(***************************************************************************)
(* A ModView on the command button                                         *)
(***************************************************************************)
\* create_lfo of the profile: a Basic, its ModView mapped to a momentary
\* button of the active view; the dial is the Parameter CC_1
ModViewProfile ==
    [map_this(new_target(add_modifier(quick_parameter(Constructed, MainDial, FALSE),
                                      [name |-> "LFO", type |-> "Basic",
                                       amplitude |-> FULL, value |-> 0,
                                       targets |-> <<>>]),
                         "LFO_ModView", ModView(1)),
              "Init", CommandButton, "LFO_ModView")
       EXCEPT !.vconf["Init"][CommandButton].toggle = FALSE]

ModViewInit == ShellStart /\ RouterStart(ModViewProfile)

\* Interface.from_input(input, ID, value): the button pressed or released
ModViewInput ==
    /\ \E value \in {0, FULL} :
         Commit(from_input(Begin("from_input", "iface", <<CommandButton, value>>),
                           "iface", "input", CommandButton, value))
    /\ UNCHANGED shellVars

\* ... and a dial turned
ModViewDial ==
    /\ \E ID \in Dials, value \in {0, FULL} :
         Commit(from_input(Begin("from_input", "iface", <<ID, value>>),
                           "iface", "input", ID, value))
    /\ UNCHANGED shellVars

\* time passes while the button is down: up to the threshold or beyond it
ModViewWait ==
    /\ tobj["LFO_ModView"].time_pressed = 0
    /\ \E d \in {LONGPRESS_TIME, LONGPRESS_TIME + 1} :
         tobj' = [tobj EXCEPT !["LFO_ModView"].time_pressed = d]
    /\ UNCHANGED <<controls, page, view, views, vmap, vconf, targets, maker,
                   device_q, modifiers, snapshots, recent_changes,
                   last_modified_targets, blink_state, last_sent_values, poll, op>>
    /\ UNCHANGED shellVars

ModViewNext == ModViewInput \/ ModViewDial \/ ModViewWait

ModViewSpec == ModViewInit /\ [][ModViewNext]_vars

(***************************************************************************)
(* devices.ports.OutputPort: what it sent last and what it reports         *)
(***************************************************************************)
\* OutputPort.cc, executed by the worker of the output Shell: the value is
\* noted under ccc2ID(channel, cc) and the message [CONTROL_CHANGE |
\* (channel - 1), cc, value] sent (channel in 1..16)
OutputPort_cc(s, channel, number, value) ==
    [s EXCEPT !.last_sent_values = with_key(@, ccc2ID(channel, number, 0), value),
              !.op.sent = Append(@, <<CONTROL_CHANGE + (channel - 1), number,
                                      value>>)]

\* OutputPort.input_callback on a message of three bytes that is no clock
\* message: channel, cc, value = message; the first byte is taken for the
\* channel as it is
OutputPort_input_callback(s, message) ==
    IF ccc2ID(message[1], message[2], 0) \in DOMAIN s.last_sent_values
       /\ message[3] # s.last_sent_values[ccc2ID(message[1], message[2], 0)]
      THEN received(s, message[1], message[2], message[3])
      ELSE s

\* the addresses and the values of the output
PortChannels == {1, 2}
PortNumbers == {1, 2}
PortValues == {0, 64, FULL}

\* the control change messages the peer delivers, as OutputPort.cc and
\* Device.input_callback read them: [CONTROL_CHANGE | (channel - 1), cc, value]
InboundMessages ==
    {<<CONTROL_CHANGE + (channel - 1), number, value>> :
        channel \in PortChannels, number \in PortNumbers, value \in PortValues}

OutputInit == ShellStart /\ RouterStart(Constructed)

\* self.output.cc(channel, cc, value), executed by the worker of the output
OutputCC ==
    /\ \E channel \in PortChannels, number \in PortNumbers, value \in PortValues :
         Commit(OutputPort_cc(Begin("cc", WorkerOf("output"),
                                    <<channel, number, value>>),
                              channel, number, value))
    /\ UNCHANGED shellVars

\* OutputPort.update: a message of the peer is handled
OutputInput ==
    /\ Len(device_q) < MaxPending
    /\ \E message \in InboundMessages :
         Commit(OutputPort_input_callback(
                   Begin("input_callback", WorkerOf("output"), message), message))
    /\ UNCHANGED shellVars

OutputNext == OutputCC \/ OutputInput \/ InterfaceUpdate

OutputSpec == OutputInit /\ [][OutputNext]_vars

(***************************************************************************)
(* smci.makers.ParameterMaker: the addresses it hands out                  *)
(***************************************************************************)
\* ParameterMaker.make seen from the maker m: the maker it leaves, the
\* channel and the cc of the Parameter it returns, the exception it raises
make(m) ==
    IF m.exhausted THEN [maker |-> m, ret |-> None, exc |-> "Exhausted"]
    ELSE [maker |-> advance(m), ret |-> <<m.channel, m.next_cc>>, exc |-> "none"]

\* ParameterMaker.skip(n): for _ in range(n): self.advance(); the n calls
\* are counted off in two halves, the first worked out before the second
RECURSIVE skip(_, _)
skip(m, n) ==
    IF n = 0 THEN m
    ELSE IF n = 1 THEN advance(m)
    ELSE CHOOSE r \in {skip(half, n - (n \div 2)) :
                           half \in {skip(m, n \div 2)}} : TRUE

\* the Parameters made in a run, and the numbers of cc values skipped
MaxProduced == 3
SkipCounts == {125}

\* ParameterMaker(self, 1): channel 1, first_cc 1, nothing made yet
MakerInit ==
    /\ ShellStart
    /\ RouterStart([Constructed EXCEPT !.op =
          [name |-> "init", thread |-> "main", arg |-> 0, ret |-> None,
           made |-> {}, exc |-> "none"]])

\* parameter_maker.make()
MakerMake ==
    /\ maker.exhausted \/ Cardinality(op.made) < MaxProduced
    /\ maker' = make(maker).maker
    /\ op' = [name |-> "make", thread |-> "main", arg |-> 0,
              ret |-> make(maker).ret,
              made |-> IF make(maker).exc = "none"
                         THEN op.made \cup {make(maker).ret} ELSE op.made,
              exc |-> make(maker).exc]
    /\ UNCHANGED <<controls, page, view, views, vmap, vconf, targets, tobj,
                   device_q, modifiers, snapshots, recent_changes,
                   last_modified_targets, blink_state, last_sent_values, poll>>
    /\ UNCHANGED shellVars

\* parameter_maker.skip(n)
MakerSkip ==
    /\ ~maker.exhausted
    /\ \E n \in SkipCounts :
         /\ maker' = skip(maker, n)
         /\ op' = [name |-> "skip", thread |-> "main", arg |-> n, ret |-> None,
                   made |-> op.made, exc |-> "none"]
    /\ UNCHANGED <<controls, page, view, views, vmap, vconf, targets, tobj,
                   device_q, modifiers, snapshots, recent_changes,
                   last_modified_targets, blink_state, last_sent_values, poll>>
    /\ UNCHANGED shellVars

MakerNext == MakerMake \/ MakerSkip

MakerSpec == MakerInit /\ [][MakerNext]_vars

(***************************************************************************)
(* A modified Parameter: the dial turned between the ticks                 *)
(***************************************************************************)
\* the values the dial is turned to
CenterValues == {0, 32, 120, FULL}

\* Interface.from_input(input, ID, value) for the dial of the Parameter
CenterInput ==
    /\ \E value \in CenterValues :
         Commit(from_input(Begin("from_input", "iface", <<MainDial, value>>),
                           "iface", "input", MainDial, value))
    /\ UNCHANGED shellVars

CenterInit == ShellStart /\ RouterStart(Modified_by_one)

CenterNext == ModTick \/ CenterInput

CenterSpec == CenterInit /\ [][CenterNext]_vars

(***************************************************************************)
(* Claims about the Shell                                                  *)
(***************************************************************************)
\* C1: the worker executes the queued calls in exactly the order in which
\* they were put on the queue: at every moment the calls executed so far,
\* followed by the calls still queued, are the calls submitted so far, in
\* submission order; no tick and no drain cap reorders, skips or duplicates
C1_SubmissionOrder == executed \o q = submitted

\* more calls executed than one iteration can drain: ticks lay in between
C1_Witness == Len(executed) > DrainCap /\ q = <<>>

\* C2 (as claimed): every call the worker has executed has published an
\* outcome in its result slot, so get() on it returns, and the worker loop
\* is still running
C2_ExceptionDelivered ==
    /\ \A i \in 1..Len(executed) : results[executed[i]] # "empty"
    /\ pc # "dead"

C4_TickInfinitelyOften ==
    /\ [](iterCalls <= DrainCap /\ iterTicks <= 1)
    /\ []<>(lastStep \in {"tick", "tick_raised"})

(***************************************************************************)
(* Claims about the routing between the devices                            *)
(***************************************************************************)
\* C5 (as claimed): every write to the state of the input Device (a
\* Control's value, state, ignore countdown or configuration, the Device's
\* page) that a handler makes is executed on the worker thread of the
\* Device's Shell
C5_WritesOnDeviceWorker == \A w \in op.writes : w.thread = WorkerOf("input")

\* C6: no thread waits in get() for a result of the Shell whose worker it
\* is: a handler running on the worker of the input Device issues no get()
\* at all, and no handler ends in a wait on itself
C6_NoGetOnOwnWorker ==
    /\ \A g \in op.gets : g.thread # WorkerOf(g.shell)
    /\ op.thread = WorkerOf("input") => op.gets = {}
    /\ op.exc # "Deadlock"

\* the tick of the input Device took a hardware event through
\* input_callback, set_control and control_changed and informed the Interface
C6_Witness ==
    /\ op.name = "input_callback"
    /\ op.thread = WorkerOf("input")
    /\ op.set_calls # <<>>
    /\ device_q # <<>>
    /\ device_q[Len(device_q)].data = op.arg

\* C7 (as claimed): the event queue has a capacity: when the devices have
\* left as many events pending as the model lets them, the queue is full,
\* so that a further event is dropped
C7_BoundedQueue == Len(device_q) >= MaxPending => Full(device_q, DeviceQMaxsize)

\* the Parameters among the targets a handler triggered, in order
ParameterTriggers ==
    SelectSeq(op.triggered, LAMBDA t : tobj[t].type = "Parameter")

\* C8: handling a value change that came from the output device sends
\* nothing to the output device: during from_output with the output as
\* sender there is no call of output.cc, whatever the view maps
C8_NoSendToOutput == op.name = "from_output" => op.output_cc = <<>>

\* from_output triggered a Parameter with the value of the output and
\* reflected it on the controls of the input device mapped to it
C8_Witness ==
    /\ op.name = "from_output"
    /\ op.exc = "none"
    /\ ParameterTriggers # <<>>
    /\ \A k \in 1..Len(ParameterTriggers) : tobj[ParameterTriggers[k]].value = op.arg[3]
    /\ \E k \in 1..Len(op.set_calls) : op.set_calls[k].value = op.arg[3]
    /\ \E ID \in DOMAIN controls : controls[ID].value = op.arg[3]

\* an update that took one event of the input device from the queue and
\* handled it to the end in one view
InputEventRouted ==
    /\ op.name = "update"
    /\ op.exc = "none"
    /\ Len(op.consumed) = 1
    /\ op.consumed[1].ev = "DeviceEvent.CC"
    /\ \A k \in 1..Len(op.triggered) : tobj[op.triggered[k]].type # "SwitchView"

\* the Parameters the active view maps to the ID, one entry per mapping
MappedParameters(ID) ==
    SelectSeq(vmap[view][ID], LAMBDA t : tobj[t].type = "Parameter")

\* the calls of output.cc of the last handler on the address of target t
SendsFor(t) ==
    {k \in 1..Len(op.output_cc) :
        /\ op.output_cc[k][1] = tobj[t].channel
        /\ op.output_cc[k][2] = tobj[t].cc}

BoundParameters(channel, number) ==
    {t \in DOMAIN tobj :
        /\ tobj[t].type = "Parameter"
        /\ tobj[t].channel = channel /\ tobj[t].cc = number
        /\ \E ID \in DOMAIN vmap[view] :
              \E k \in 1..Len(vmap[view][ID]) : vmap[view][ID][k] = t}

\* C10 (as claimed): when update has taken an OutputEvent.CC from the queue
\* whose address is bound to a Parameter of the active view, the event was
\* dispatched to from_output: the Parameter has the value and every control
\* mapped to it was set to it
C10_OutputEventReflected ==
    (/\ op.name = "update"
     /\ Len(op.consumed) = 1
     /\ op.consumed[1].ev = "OutputEvent.CC")
    => \A t \in BoundParameters(op.consumed[1].data[1], op.consumed[1].data[2]) :
          /\ op.exc = "none"
          /\ tobj[t].value = op.consumed[1].data[3]
          /\ \A ID \in DOMAIN vmap[view] :
                (\E k \in 1..Len(vmap[view][ID]) : vmap[view][ID][k] = t)
                => \E c \in 1..Len(op.set_calls) :
                      /\ op.set_calls[c].ID = ID
                      /\ op.set_calls[c].value = op.consumed[1].data[3]

\* the calls of Device.set_control of the last handler on control ID
SetCallsOn(ID) == {k \in 1..Len(op.set_calls) : op.set_calls[k].ID = ID}

\* the IDs the active view maps to target t
MappedIDs(t) ==
    {ID \in DOMAIN vmap[view] :
        \E k \in 1..Len(vmap[view][ID]) : vmap[view][ID][k] = t}

\* an input event on a control that the active view maps to one Parameter
\* was routed to the end
GangedEventRouted ==
    /\ InputEventRouted
    /\ Len(vmap[view][op.consumed[1].data[1]]) = 1
    /\ Len(MappedParameters(op.consumed[1].data[1])) = 1

RouterState == <<controls, page, view, views, vmap, vconf, targets, tobj>>

\* C12: switch_to_view(V) with V the active view changes nothing: catalog,
\* registry, views, and controls with their configuration stay as they
\* are, no control is set and nothing is sent to the input device
C12_SwitchToActiveViewNoOp ==
    [][(op'.name = "switch_to_view" /\ op'.arg = <<view>>)
         => /\ UNCHANGED RouterState
            /\ op'.exc = "none"
            /\ op'.set_calls = <<>>
            /\ op'.sent = <<>>
            /\ op'.writes = {}]_vars

\* switch_to_view returned without a single set_control, which a real
\* switch never does: the view named was the active one; here the second
\* view of the catalog
C12_Witness ==
    /\ op.name = "switch_to_view"
    /\ op.exc = "none"
    /\ op.arg = <<view>>
    /\ view = "V_1"
    /\ op.set_calls = <<>>

\* the values of the value-bearing targets that view v maps to the ID
ValuesMapped(vm, tg, ID) ==
    {target_value(tg[vm[ID][k]]) :
        k \in {j \in 1..Len(vm[ID]) : has_value(tg[vm[ID][j]])}}

\* C13 (as claimed): a switch_to_view(V) to a view of the catalog that is
\* not the active one completes, V is the active view, and every control of
\* the input device holds the value of a value-bearing target that V maps
\* to its ID, or 0 if there is none
C13_SwitchReflectsValues ==
    [][(/\ op'.name = "switch_to_view"
        /\ op'.arg[1] # view
        /\ \E k \in 1..Len(views) : views[k] = op'.arg[1])
         => /\ op'.exc = "none"
            /\ view' = op'.arg[1]
            /\ \A ID \in DOMAIN controls' :
                  IF ValuesMapped(vmap'[view'], tobj', ID) = {}
                    THEN controls'[ID].value = 0
                    ELSE controls'[ID].value
                            \in ValuesMapped(vmap'[view'], tobj', ID)]_vars

\* C14: switch_to_view with a name that no view of the catalog bears
\* raises KeyError to its caller and leaves the active view, the catalog,
\* the registry and every control of the input device as they were
C14_UnknownViewRaises ==
    [][(/\ op'.name = "switch_to_view"
        /\ \A k \in 1..Len(views) : views[k] # op'.arg[1])
         => /\ op'.exc = "KeyError"
            /\ UNCHANGED <<view, views, vmap, vconf, targets, tobj, controls, page>>
            /\ op'.set_calls = <<>>
            /\ op'.sent = <<>>]_vars

\* the lookup of "nowhere" failed after the second view had become the
\* active one
C14_Witness ==
    /\ op.name = "switch_to_view"
    /\ op.arg = <<"nowhere">>
    /\ op.exc = "KeyError"
    /\ view = "V_1"
    /\ op.set_calls = <<>>

\* C15: for channel in 1..16, number in 0..127 and every page,
\* ID2ccc(ccc2ID(channel, number, page), page) = (channel, number), the ID
\* is (channel-1)*128 + number + page*2048, and a different (channel,
\* number) of the same page has a different ID
C15_AddressBijection ==
    op.name = "ccc2ID" =>
        /\ op.ccc = <<op.arg[1], op.arg[2]>>
        /\ op.ID = (op.arg[1] - 1) * 128 + op.arg[2] + op.arg[3] * 2048
        /\ op.other # <<op.arg[1], op.arg[2]>> => op.otherID # op.ID

\* channel 16, number 127 of page 1 was encoded as 4095 and decoded, next
\* to the ID of another address of that page
C15_Witness ==
    /\ op.name = "ccc2ID"
    /\ op.arg = <<16, 127, 1>>
    /\ op.ID = 4095
    /\ op.ccc = <<16, 127>>
    /\ op.other = <<1, 0>>
    /\ op.otherID = 2048

\* C16 (as claimed): after every set_value, with whatever integer, the
\* value of the control lies between its minval and its maxval
C16_ValueClipped ==
    op.name = "set_value" =>
        /\ controls[op.ID].minval <= controls[op.ID].value
        /\ controls[op.ID].value <= controls[op.ID].maxval

\* the last four calls of the history
LastFour == SubSeq(op.calls, Len(op.calls) - 3, Len(op.calls))

\* a toggle Button was at rest and then given maxval, minval, maxval, minval
PressedTwice ==
    /\ op.name = "set_value"
    /\ controls[op.ID].kind = "Button"
    /\ controls[op.ID].toggle
    /\ Len(op.calls) >= 4
    /\ LastFour[1].rest_before
    /\ [k \in 1..4 |-> LastFour[k].value]
          = <<controls[op.ID].maxval, controls[op.ID].minval,
              controls[op.ID].maxval, controls[op.ID].minval>>

\* C17: a toggle Button at rest that is given maxval, minval, maxval,
\* minval changes its state exactly twice, to True at the first value and
\* back to False at the fourth, and is at rest again, so that the next
\* four values do the same
C17_ToggleFlipsTwice ==
    PressedTwice =>
        /\ [k \in 1..4 |-> LastFour[k].state] = <<TRUE, TRUE, TRUE, FALSE>>
        /\ at_rest(controls[op.ID])

\* the button was pressed and released twice from rest: it went on at the
\* first value, stayed on for two, went off at the fourth and holds minval
C17_Witness ==
    /\ PressedTwice
    /\ C17_ToggleFlipsTwice
    /\ controls[op.ID].value = controls[op.ID].minval

\* the handler that ends in the next state is a set_control with an ID
\* that the device does not own, or an input_callback on a message whose
\* address is no control on the active page nor on page 0
UnknownAddress ==
    \/ /\ op'.name = "set_control"
       /\ op'.arg[1] \notin DOMAIN controls
    \/ /\ op'.name = "input_callback"
       /\ ccc2ID((op'.arg[1] - CONTROL_CHANGE) + 1, op'.arg[2], page)
             \notin DOMAIN controls
       /\ ccc2ID((op'.arg[1] - CONTROL_CHANGE) + 1, op'.arg[2], 0)
             \notin DOMAIN controls

\* C18: a set_control with an ID the device does not own, and a hardware
\* event that resolves to no control on the active page or on page 0,
\* return None, change no control, send nothing to the hardware and
\* notify no listener
C18_UnknownAddressDropped ==
    [][UnknownAddress
         => /\ op'.ret = None
            /\ UNCHANGED <<controls, page, device_q>>
            /\ op'.sent = <<>>
            /\ op'.writes = {}]_vars

\* on page 1 a message of channel 1, number 1 arrived and was dropped while
\* an event of a known control waited in the queue of the listener
C18_Witness ==
    /\ op.name = "input_callback"
    /\ op.arg[1] = CONTROL_CHANGE
    /\ op.arg[2] = 1
    /\ page = 1
    /\ op.ret = None
    /\ op.set_calls = <<[ID |-> UnownedID, value |-> op.arg[3], force |-> FALSE]>>
    /\ device_q # <<>>

\* the ordered (control ID, Target name, Target type) bindings of a view
Bindings(vm, tg) ==
    [k \in 1..Len(map_items(vm, 1)) |->
        <<map_items(vm, 1)[k][1], map_items(vm, 1)[k][2],
          tg[map_items(vm, 1)[k][2]].type>>]

\* the names of the views of a catalog
CatalogNames(vs) == {vs[k] : k \in 1..Len(vs)}

\* the handler that ends in the next state made the profile of an
\* Interface with an active view and loaded it
ProfileLoaded == op'.name = "load_profile" /\ view # NoView

\* C19 (as claimed): load_profile(make_profile()) yields a catalog with
\* the same set of View names, the same active View name, and for every
\* View of the catalog the same ordered (control ID, Target name, Target
\* type) bindings and the same configuration of every control
C19_ProfileRoundTrip ==
    [][ProfileLoaded
         => /\ CatalogNames(views') = CatalogNames(views)
            /\ view' = view
            /\ \A n \in CatalogNames(views) :
                  /\ Bindings(vmap'[n], tobj') = Bindings(vmap[n], tobj)
                  /\ vconf'[n] = vconf[n]]_vars

\* the Modifiers of a set with a given name and table of powers
ModifiersLike(ms, mod) ==
    {k \in 1..Len(ms) : ms[k].name = mod.name /\ ms[k].targets = mod.targets}

\* C20 (as claimed): after load_profile(make_profile()), in the Interface
\* that made the profile or in a new one, there is exactly one Modifier
\* for every Modifier serialized, with the same name and the same table of
\* powers by Target name, and no other
C20_ModifierRoundTrip ==
    [][ProfileLoaded
         => /\ Len(modifiers') = Len(modifiers)
            /\ \A k \in 1..Len(modifiers) :
                  Cardinality(ModifiersLike(modifiers', modifiers[k]))
                     = Cardinality(ModifiersLike(modifiers, modifiers[k]))]_vars

\* the Targets the Views of the catalog map
MappedInCatalog ==
    UNION {{map_items(vmap[views[k]], 1)[j][2] :
              j \in 1..Len(map_items(vmap[views[k]], 1))} : k \in 1..Len(views)}

\* the Targets the Interface knows: those of the registry and those the
\* Views of its catalog map
KnownTargets == targets \cup MappedInCatalog

\* C21 (as claimed): after any sequence of add_target, quick_parameter,
\* quick_view, add_view and switch_to_view no two distinct Target objects
\* the Interface knows share a name, every Target a View of the catalog
\* maps is the object registered under its name, and an add_target of a
\* Target whose name is taken leaves the registry unchanged
C21_TargetNamesUnique ==
    /\ [](/\ \A a, b \in KnownTargets : name_of(a) = name_of(b) => a = b
          /\ MappedInCatalog \subseteq targets)
    /\ [][op'.name = "add_target" /\ (\E r \in targets : name_of(r) = op'.arg[1])
            => targets' = targets]_vars

\* the Modifiers that list the Target t in their table of powers
Listing(t) == {k \in 1..Len(modifiers) : t \in DOMAIN modifiers[k].targets}

\* the base value of t plus the sum of modvalue * power over the Modifiers
\* that list it, clipped to the range of the Target (and made an int, as
\* the value of a Target is)
Modified(t) ==
    int(clip(0 * Unit, FULL * Unit,
             tobj[t].value * Unit
               + SumOf([k \in Listing(t) |->
                          modvalue(modifiers[k]) * modifiers[k].targets[t]],
                       Listing(t))))

\* C22 (as claimed): after every tick and after any sequence of
\* Modifier.target calls (power 0 included), remove_target calls and ticks
\* the effective value of each ValueTarget is its base value plus the sum
\* of modvalue * power over exactly the Modifiers that list it, clipped
C22_EffectiveValue ==
    \A t \in targets : has_value(tobj[t]) => target_value(tobj[t]) = Modified(t)

\* the handler that ends in the next state loaded a slot that holds a
\* snapshot
SnapshotLoaded ==
    op'.name = "load_snapshot" /\ str(op'.arg[1]) \in DOMAIN snapshots

\* the Targets and the Modifiers as they were when the slot was saved
SavedIn(slot) == snapshots[str(slot)].was

\* C23 (as claimed): a load_snapshot(s) that follows save_snapshot(s) and
\* any input events, triggers and ticks gives every ValueTarget registered
\* at the save the base value and the table of offsets it had then, gives
\* every Modifier the value, amplitude and table of powers it had then,
\* and changes neither the catalog nor the maps of the views nor the
\* registry
C23_SnapshotRestores ==
    [][SnapshotLoaded
         => /\ \A t \in DOMAIN SavedIn(op'.arg[1]).tobj :
                  has_value(SavedIn(op'.arg[1]).tobj[t])
                    => /\ tobj'[t].value = SavedIn(op'.arg[1]).tobj[t].value
                       /\ tobj'[t].modifiers = SavedIn(op'.arg[1]).tobj[t].modifiers
            /\ \A k \in 1..Len(SavedIn(op'.arg[1]).modifiers) :
                  /\ modifiers'[k].value = SavedIn(op'.arg[1]).modifiers[k].value
                  /\ modifiers'[k].amplitude = SavedIn(op'.arg[1]).modifiers[k].amplitude
                  /\ modifiers'[k].targets = SavedIn(op'.arg[1]).modifiers[k].targets
            /\ views' = views /\ vmap' = vmap /\ targets' = targets]_vars

\* the entries of the profile that the handler ending in the next state
\* loaded
LoadedMap == DeferredProfiles[op'.arg[1]].views[1].map

\* the entries of a map that name a Target which no entry before them
\* constructs
Deferring(ts) ==
    {j \in DOMAIN ts : /\ ts[j].type \in {"FlexSetter", "SnapshotButton"}
                       /\ \A k \in 1..(j - 1) : ts[k].name # named_in(ts[j])}

\* the Targets mapped to a control that still keep a name to resolve
Waiting(ID) ==
    {t \in {vmap[view][ID][k] : k \in 1..Len(vmap[view][ID])} :
        /\ tobj[t].type \in {"FlexSetter", "SnapshotButton"}
        /\ tobj[t].deferred # ""}

\* C24 (as claimed): a FlexSetter or SnapshotButton loaded from an entry
\* that names a Target not yet constructed keeps the name and the load
\* does not fail; its first trigger resolves the name to the Target
\* registered under it, and with the name still unregistered the trigger
\* does nothing and raises nothing
C24_DeferredBinding ==
    [][/\ (op'.name = "load_profile" /\ Deferring(LoadedMap) # {})
            => /\ op'.exc = "none"
               /\ \A j \in Deferring(LoadedMap) :
                     /\ LoadedMap[j].name \in targets'
                     /\ tobj'[LoadedMap[j].name].deferred = named_in(LoadedMap[j])
       /\ (op'.name = "from_input" /\ view # NoView)
            => \A t \in Waiting(op'.arg[1]) :
                  IF name_taken(State, tobj[t].deferred)
                    THEN /\ tobj'[t].link = registered(State, tobj[t].deferred)
                         /\ tobj'[t].deferred = ""
                    ELSE UNCHANGED RouterState /\ op'.exc = "none"]_vars

\* C25 (as claimed): get_recent_changes is drain-once, also when it runs
\* on another thread while the update thread records values: a call
\* returns, for every control, the latest value recorded since the call
\* before it and nothing else (so an empty map if nothing was recorded),
\* and leaves nothing recorded for the calls after it
C25_DrainOnce ==
    [][op'.name = "get_recent_changes"
         => /\ poll'.returned = poll.since
            /\ recent_changes' = <<>>]_vars

\* what the message loop of the Device.update just made leaves behind
AfterMessages ==
    handle_messages(Begin("device_update", WorkerOf("input"), op'.arg),
                    WorkerOf("input"), op'.arg[1], 1)

\* the messages the blinking routine owes the hardware in phase p
BlinkFrame(s, p) ==
    {<<ID, phase_value(p, s.controls[ID].maxval)>> :
        ID \in {i \in DOMAIN s.controls :
                   s.controls[i].blink /\ control_on_active_page(s, i)}}

\* C26: the blinking routine of Device.update leaves the value, the state
\* and the ignore countdown of every Control as the messages of that update
\* left them and puts nothing into the queue of the listeners; it flips the
\* blink phase and sends phase * maxval, and only for controls whose blink
\* flag is set (Device.cc sends those of them that are on the active page).
C26_BlinkFrame ==
    [][(op'.name = "device_update" /\ op'.arg[2])
         => /\ controls' = AfterMessages.controls
            /\ device_q' = AfterMessages.device_q
            /\ blink_state' = ~blink_state
            /\ LET n == Len(AfterMessages.op.sent)
               IN /\ Len(op'.sent) = n + Cardinality(BlinkFrame(AfterMessages, blink_state'))
                  /\ {op'.sent[k] : k \in (n + 1)..Len(op'.sent)}
                        = BlinkFrame(AfterMessages, blink_state')]_vars

C26_Witness ==
    /\ op.name = "device_update"
    /\ op.arg[2]
    /\ \E k \in 1..Len(op.sent) :
          /\ controls[op.sent[k][1]].blink
          /\ controls[op.sent[k][1]].value # op.sent[k][2]
          /\ controls[op.sent[k][1]].value > 0

\* the event Device.control_changed puts into the queue of the listener
ChangeEvent(ID, value) ==
    [ev |-> "DeviceEvent.CC", sender |-> "input", data |-> <<ID, value>>]

\* C27: in every set_control call in which the Control accepts a value r
\* for the requested value v, r is sent to the hardware if and only if the
\* change did not come from the hardware or r differs from v, and the
\* listeners are notified of r if and only if the change came from the
\* hardware or r differs from v.
C27_SetControlPolicy ==
    [][(op'.name = "set_control" /\ op'.ret # None)
         => LET ID == op'.arg[1]
                v == op'.arg[2]
                from_inp == op'.arg[3]
                r == op'.ret
            IN /\ (op'.sent = <<<<ID, r>>>>) <=> (~from_inp \/ r # v)
               /\ (op'.sent = <<>>) <=> ~(~from_inp \/ r # v)
               /\ (device_q' = Append(device_q, ChangeEvent(ID, r)))
                     <=> (from_inp \/ r # v)
               /\ (device_q' = device_q) <=> ~(from_inp \/ r # v)]_vars

\* C28: when the Control rejects the value, as a Button does while its
\* ignore countdown is positive, set_control returns None, no listener is
\* notified, and the value and the state of the Control are what they were
\* before the call.
C28_RejectedValue ==
    [][(/\ op'.name = "set_control"
        /\ controls[op'.arg[1]].kind = "Button"
        /\ controls[op'.arg[1]].ignore > 0)
         => /\ op'.ret = None
            /\ device_q' = device_q
            /\ controls'[op'.arg[1]].value = controls[op'.arg[1]].value
            /\ controls'[op'.arg[1]].state = controls[op'.arg[1]].state]_vars

C28_Witness ==
    /\ op.name = "set_control"
    /\ op.ret = None
    /\ op.arg[2] = 0
    /\ op.arg[3] /\ op.arg[4]
    /\ controls[op.arg[1]].state
    /\ controls[op.arg[1]].value = FULL
    /\ controls[op.arg[1]].ignore = 1

\* C29: in toggle emulation, after a toggle Button accepts a press (state
\* False to True) its countdown of set_value events to ignore stands at 1,
\* and after it accepts a release (state True to False) it stands at 2.
C29_SuppressedCount ==
    [][(/\ op'.name = "set_value"
        /\ controls[op'.arg[1]].toggle
        /\ controls[op'.arg[1]].ignore = 0)
         => /\ (~controls[op'.arg[1]].state /\ controls'[op'.arg[1]].state)
                  => controls'[op'.arg[1]].ignore = 1
            /\ (controls[op'.arg[1]].state /\ ~controls'[op'.arg[1]].state)
                  => controls'[op'.arg[1]].ignore = 2]_vars

\* C30: for every Button, in toggle and in momentary mode, after any
\* sequence of set_value, on, off and configure calls, state is True if and
\* only if value equals maxval, and in toggle mode a state of False goes
\* with a value of minval.
C30_StateMatchesValue ==
    \A ID \in ButtonIDs :
        /\ controls[ID].state <=> (controls[ID].value = controls[ID].maxval)
        /\ (controls[ID].toggle /\ ~controls[ID].state)
              => controls[ID].value = controls[ID].minval

\* the IDs of the page p of the device: range(p * 16 * 128, (p + 1) * 16 * 128)
PageIDs(p) == (p * 16 * 128)..((p + 1) * 16 * 128 - 1)

\* C31: a value change of a Control that is not on the active page is not
\* sent to the hardware although the Control takes the value; on the BCR2k
\* only the main dials are paged, and a change of any other control that
\* set_control has to send goes out whatever the active page is.  The dials
\* a page flip sends out are those of the page now shown.
C31_PagedSend ==
    [][/\ (op'.name = "set_control" /\ op'.ret # None)
            => LET ID == op'.arg[1]
                   due == ~op'.arg[3] \/ op'.ret # op'.arg[2]
               IN /\ controls'[ID].value = op'.ret
                  /\ (ID \in Dials /\ ID \notin PageIDs(page'))
                        => op'.sent = <<>>
                  /\ (ID \in Dials /\ ID \in PageIDs(page') /\ due)
                        => op'.sent = <<<<ID, op'.ret>>>>
                  /\ (ID \notin Dials /\ due)
                        => op'.sent = <<<<ID, op'.ret>>>>
       /\ (op'.name = "page")
            => \A k \in 1..Len(op'.sent) :
                  op'.sent[k][1] \in Dials \cap PageIDs(page')]_vars

C31_Witness ==
    /\ op.name = "set_control"
    /\ page = 1
    /\ op.arg[1] = MainDial
    /\ op.arg[2] = FULL
    /\ ~op.arg[3]
    /\ op.ret = FULL
    /\ controls[MainDial].value = FULL
    /\ op.sent = <<>>

\* C32: removing targets from a Modifier leaves no stale entry: after
\* target(t, power=0) or remove_target(t) its power table has no entry for
\* t, and clear_targets() on a Modifier with one or more targets completes
\* with an empty power table and with the offset of this Modifier removed
\* from every former target.
C32_NoStaleEntry ==
    [][/\ (op'.name = "target" /\ op'.arg[3] = 0)
            => op'.arg[2] \notin DOMAIN modifiers'[op'.arg[1]].targets
       /\ (op'.name = "remove_target")
            => op'.arg[2] \notin DOMAIN modifiers'[op'.arg[1]].targets
       /\ (op'.name = "clear_targets" /\ DOMAIN modifiers[op'.arg[1]].targets # {})
            => /\ op'.exc = "none"
               /\ DOMAIN modifiers'[op'.arg[1]].targets = {}
               /\ \A t \in DOMAIN modifiers[op'.arg[1]].targets :
                     op'.arg[1] \notin DOMAIN tobj'[t].modifiers]_vars

\* the views of the catalog
Catalog == {views[k] : k \in 1..Len(views)}

\* the menu button is mapped, in the active View, to one SwitchView target
\* whose View was made by quick_view and is not in the catalog yet
QuickViewPending ==
    /\ view \in DOMAIN vmap
    /\ Len(vmap[view][MenuButton]) = 1
    /\ tobj[vmap[view][MenuButton][1]].type = "SwitchView"
    /\ tobj[vmap[view][MenuButton][1]].view_name \in DOMAIN vmap \ Catalog

\* C33: after quick_view(ID) has made a new View and a SwitchView target
\* mapped to ID in the active View, an input event with value 127 on ID
\* makes the new View the active View and adds it to the catalog.
C33_QuickViewSwitch ==
    [][(op'.name = "from_input" /\ op'.arg = <<MenuButton, FULL>> /\ QuickViewPending)
         => /\ view' = tobj[vmap[view][MenuButton][1]].view_name
            /\ view' \in {views'[k] : k \in 1..Len(views')}]_vars

\* C34: under fairness of the worker thread, every call submitted through
\* a call wrapper of a running Shell is eventually executed, whatever the
\* outcome of the calls queued before it (and with it a caller blocked in
\* get() on its result is released).
C34_EveryCallExecuted ==
    \A id \in 1..MaxCalls :
        (running /\ id \in {submitted[k] : k \in 1..Len(submitted)})
            ~> (id \in {executed[k] : k \in 1..Len(executed)})

\* the (channel, number) address of the message [channel_byte, cc, value]
AddressOf(msg) == <<(msg[1] - CONTROL_CHANGE) + 1, msg[2]>>

\* C35: on the BCR2k, on either page, the Control that input_callback hands
\* the value of an inbound event to is one that is on the active page: an
\* event of a paged dial goes to the dial Control of the active page and
\* leaves the one of the other page alone, and an event of a control that
\* is not paged goes to the same Control on both pages.
C35_InputOnActivePage ==
    [][(op'.name = "device_update" /\ op'.arg[1] # <<>>)
         => /\ Len(op'.set_calls) = 1
            /\ LET ID == op'.set_calls[1].ID
               IN /\ ID \in DOMAIN controls
                  /\ ID2ccc(ID) = AddressOf(op'.arg[1][1])
                  /\ ID \in Dials => ID \in PageIDs(page)
                  /\ ID \notin Dials => ID = ccc2ID(AddressOf(op'.arg[1][1])[1],
                                                    AddressOf(op'.arg[1][1])[2], 0)
                  /\ \A other \in DOMAIN controls \ {ID} :
                        controls'[other] = controls[other]]_vars

C35_Witness ==
    /\ op.name = "device_update"
    /\ page = 1
    /\ Len(op.set_calls) = 1
    /\ op.set_calls[1].ID = MainDial2
    /\ controls[MainDial2].value = FULL
    /\ controls[MainDial].value = 0

\* C36: after any sequence of input events on dials mapped to Parameters,
\* dials mapped to FlexParameters and buttons mapped to FlexSetters, no
\* FlexParameter is linked to itself, so reading its value and triggering
\* it terminate (no RecursionError).
C36_NoSelfLink ==
    /\ \A t \in DOMAIN tobj :
          tobj[t].type = "FlexParameter" => t \notin tobj[t].parameters
    /\ op.exc # "RecursionError"

\* C37: the temporary Views a ModView constructs, the power view and the
\* config view, are never in the view catalog of the Interface, whatever
\* the presses and releases of its button, short or long, repeated or not
C37_TempViewsOutsideCatalog ==
    \A k \in 1..Len(views) :
        views[k] \notin {power_view_name, config_view_name}

\* the address a control change message is for: its channel and number
InboundID(message) == ccc2ID((message[1] - CONTROL_CHANGE) + 1, message[2], 0)

\* C38: the OutputPort reports an inbound value of the peer to its
\* listeners if and only if a value was sent to the address before and
\* the inbound value differs from the value sent last
C38_ReportedIffChanged ==
    [][(op'.name = "input_callback" /\ op'.thread = WorkerOf("output"))
         => ((device_q' # device_q)
               <=> (/\ InboundID(op'.arg) \in DOMAIN last_sent_values
                    /\ op'.arg[3] # last_sent_values[InboundID(op'.arg)]))]_vars

\* C39: every Parameter that ParameterMaker.make produces, after any makes
\* and skips, has a channel in 1..16 and a number in 0..127 other than 123
\* and an address no Parameter made before has, and an exhausted maker
\* raises Exhausted and produces nothing
C39_MadeAddresses ==
    [][op'.name = "make"
         => IF maker.exhausted
              THEN op'.exc = "Exhausted" /\ op'.ret = None
              ELSE /\ op'.exc = "none"
                   /\ op'.ret[1] \in 1..16
                   /\ op'.ret[2] \in 0..127
                   /\ op'.ret[2] # 123
                   /\ op'.ret \notin op.made]_vars

\* C40: whatever the input events and the ticks of the Modifiers, the
\* center value of every Parameter stays within its minimum and maximum,
\* and after an input of a value within the range on a Parameter that is
\* modified the value of the Parameter is the value put in
C40_CenterWithinRange ==
    \A t \in DOMAIN tobj :
        tobj[t].type = "Parameter"
          => /\ tobj[t].value \in 0..FULL
             /\ (/\ op.name = "from_input"
                 /\ op.exc = "none"
                 /\ DOMAIN tobj[t].modifiers # {}
                 /\ \E k \in 1..Len(vmap[view][op.arg[1]]) :
                       vmap[view][op.arg[1]][k] = t)
                  => target_value(tobj[t]) = op.arg[2]

====
